---------------------------- MODULE Spec2Model ----------------------------
(***************************************************************************)
(* A model of the tactical rules engine of city-eater: the map graph, the  *)
(* movement and pathfinding functions of MapManager, the entities          *)
(* (Monster, Unit), GameState, TurnManager, CombatManager and FireManager. *)
(***************************************************************************)
EXTENDS Integers, Sequences, FiniteSets, TLC

VARIABLES
    nodes,         \* MapManager.nodes: adjacentNodes, x and y of every node, by id
    terrainType,   \* MapManager.nodes[id].terrainType
    turnManager,   \* the fields of the TurnManager
    gameState,     \* the fields of the GameState
    monster,       \* the fields of the Monster
    units,         \* the fields of every Unit, by id
    timelines,     \* the movement timelines that were played and did not complete yet
    gameOver,      \* the 'game-over' events emitted; the scene stops after the first
    ledger,        \* history: destruction attempts, points and ignitions of the current game turn
    lastOp,        \* history: the operation the last step called and what it returned
    session,       \* the part of the interface the players use in this game
    dataManager,   \* DataManager.isLoaded.combatTables and DataManager.combatTables
    dataLoad,      \* the loads of DataManager.loadAll: the loader, the cache, the promises
    query,         \* the arguments of the last map query
    reachable,     \* the value the last findReachableNodes call returned
    foundPath,     \* the value the last findPath call returned
    moveResult     \* what the last moveToNode query returned and played

(***************************************************************************)
(* Bounds of the model.                                                    *)
(***************************************************************************)
\* the largest movement budget of a map query
MaxBudget == 3
\* GameState.config.maxTurns of the scenario
maxTurns == 2
\* config.movement of the scenario's monster
MonsterMovement == 2
\* stats.movementPoints of the scenario's units
UnitMovement == 2
\* the operations the players issue in one game
MaxOps == 4
\* the moves, or the attacks, the players issue in one game
MaxMoves == 2

(***************************************************************************)
(* JavaScript values.                                                      *)
(***************************************************************************)
\* The number Infinity; every finite cost of the model is far below it.
Infinity == 999
\* A Map or object entry that was never set (undefined).
NotVisited == -1
\* A field no code assigns (undefined).
Undefined == -1
\* unit?.type || null when there is no unit or the unit has no usable type.
NullType == "null"

(***************************************************************************)
(* The map graph: four corner nodes and the node in their middle.  The     *)
(* coordinates are chosen so that every pairwise distance is an integer.   *)
(***************************************************************************)
NodeRecord(adj, x, y) == [adjacentNodes |-> adj, x |-> x, y |-> y]

\* the node list of the scenario
ScenarioNodes ==
    [n \in 1..5 |->
        CASE n = 1 -> NodeRecord(<<2, 4, 5>>, 0, 0)
          [] n = 2 -> NodeRecord(<<1, 3, 5>>, 300, 0)
          [] n = 3 -> NodeRecord(<<2, 4, 5>>, 300, 400)
          [] n = 4 -> NodeRecord(<<1, 3, 5>>, 0, 400)
          [] n = 5 -> NodeRecord(<<1, 2, 3, 4>>, 150, 200)]

Nodes == DOMAIN nodes

\* an identifier that is no node of the map
MissingNodes == {9}

adjacentNodes == [n \in Nodes |-> nodes[n].adjacentNodes]

nodeX == [n \in Nodes |-> nodes[n].x]

nodeY == [n \in Nodes |-> nodes[n].y]

SeqToSet(s) == {s[i] : i \in 1..Len(s)}

\* array.includes(x)
Includes(s, x) == \E i \in 1..Len(s) : s[i] = x

\* findIndex(e => e.id === id), 0 when there is none
FindIndex(s, id) ==
    IF \E i \in 1..Len(s) : s[i] = id
    THEN CHOOSE i \in 1..Len(s) : s[i] = id /\ \A j \in 1..(i - 1) : s[j] # id
    ELSE 0

\* array.splice(index, 1)
Splice(s, index) == [i \in 1..(Len(s) - 1) |-> IF i < index THEN s[i] ELSE s[i + 1]]

(***************************************************************************)
(* MapManager.validateAdjacencies, on the node table ns that setupNodes    *)
(* has filled.  for (nodeId in this.nodes) visits integer keys ascending.  *)
(***************************************************************************)
RECURSIVE Ascending(_)
Ascending(ids) ==
    IF ids = {} THEN <<>>
    ELSE LET least == CHOOSE n \in ids : \A m \in ids : n <= m
         IN  <<least>> \o Ascending(ids \ {least})

\* node.adjacentNodes.forEach(adjId => ...), from the i-th neighbour on
RECURSIVE FixNode(_, _, _)
FixNode(ns, nodeId, i) ==
    IF i > Len(ns[nodeId].adjacentNodes) THEN ns
    ELSE LET adjId == ns[nodeId].adjacentNodes[i]
         IN  IF adjId \in DOMAIN ns /\ ~Includes(ns[adjId].adjacentNodes, nodeId)
             THEN FixNode([ns EXCEPT ![adjId].adjacentNodes = Append(@, nodeId)], nodeId, i + 1)
             ELSE FixNode(ns, nodeId, i + 1)

RECURSIVE FixNodes(_, _, _)
FixNodes(ns, ids, k) ==
    IF k > Len(ids) THEN ns ELSE FixNodes(FixNode(ns, ids[k], 1), ids, k + 1)

\* The fault claim C13 excludes: the load keeps the adjacencies as they were read.
validateAdjacenciesUnrepaired(ns) == ns

\* the node table the call leaves behind
validateAdjacencies(ns) == FixNodes(ns, Ascending(DOMAIN ns), 1)

\* the nodes the second loop of validateAdjacencies warns about
adjacencyWarnings(ns) ==
    {n \in DOMAIN ns : LET count == Len(ns[n].adjacentNodes)
                       IN  (count < 3 /\ count # 0) \/ count > 6}

(***************************************************************************)
(* TerrainTypes.js                                                         *)
(***************************************************************************)
KnownTerrains == {"street", "park", "lowBuilding", "highBuilding", "bridge",
                  "tunnel", "river", "rubble", "default"}

movementCost(t) ==
    CASE t = "street" -> 1
      [] t = "park" -> 2
      [] t = "lowBuilding" -> 3
      [] t = "highBuilding" -> 3
      [] t = "bridge" -> 1
      [] t = "tunnel" -> 1
      [] t = "river" -> 1
      [] t = "rubble" -> 2
      [] OTHER -> 1

isPassable(terrain, unitType) ==
    LET t == IF terrain \in KnownTerrains THEN terrain ELSE "default"
    IN  CASE unitType = "monster" -> t \notin {"lowBuilding", "highBuilding"}
          [] unitType \in {"armor", "artillery"} -> t \notin {"lowBuilding", "highBuilding"}
          [] unitType \in {"infantry", "police"} -> TRUE
          [] unitType = "helicopter" -> TRUE
          [] unitType = "fireboat" -> t = "river"
          [] OTHER -> TRUE

getMovementCost(terrain, unitType) ==
    IF ~isPassable(terrain, unitType) THEN -1
    ELSE LET t == IF terrain \in KnownTerrains THEN terrain ELSE "default"
         IN  IF unitType = "helicopter" THEN 1
             ELSE IF unitType = "monster" /\ t = "river" THEN 2
             ELSE movementCost(t)

(***************************************************************************)
(* A unit argument of the map functions: present is FALSE for null; type   *)
(* is the object's type field.  A Monster instance carries no unit type of *)
(* its own: its type is the one of its Phaser container.                   *)
(***************************************************************************)
NoUnit == [present |-> FALSE, type |-> NullType]

UnitOfType(t) == [present |-> TRUE, type |-> t]

MonsterInstance == UnitOfType("Container")

NoQuery == [op |-> "none", start |-> 0, target |-> 0, budget |-> 0, unit |-> NoUnit]

(***************************************************************************)
(* MapManager.js: movement costs                                           *)
(***************************************************************************)
isBridgeOverRiver(fromNodeId, toNodeId) == FALSE

isTunnelUnderRiver(fromNodeId, toNodeId) == FALSE

\* null is modelled as NotVisited (-1 is never a special cost).
checkSpecialMovementCases(fromNodeId, toNodeId, unitType) ==
    LET fromT == terrainType[fromNodeId]
        toT == terrainType[toNodeId]
        swim == unitType \in {"monster", "helicopter", "fireboat"}
    IN  IF fromT # "river" /\ toT = "river" /\ unitType = "infantry" THEN Infinity
        ELSE IF fromT = "river" /\ toT # "river" /\ unitType = "infantry" THEN Infinity
        ELSE IF isBridgeOverRiver(fromNodeId, toNodeId)
             THEN (IF swim THEN getMovementCost("river", unitType)
                           ELSE getMovementCost("bridge", unitType))
        ELSE IF isTunnelUnderRiver(fromNodeId, toNodeId)
             THEN (IF swim THEN getMovementCost("river", unitType)
                           ELSE getMovementCost("tunnel", unitType))
        ELSE NotVisited

calculateMovementCost(fromNodeId, toNodeId, unit) ==
    IF fromNodeId \notin Nodes \/ toNodeId \notin Nodes THEN -1
    ELSE IF ~Includes(adjacentNodes[fromNodeId], toNodeId) THEN -1
    ELSE LET unitType == IF unit.present THEN unit.type ELSE NullType
             specialCost == checkSpecialMovementCases(fromNodeId, toNodeId, unitType)
         IN  IF specialCost # NotVisited THEN specialCost
             ELSE getMovementCost(terrainType[toNodeId], unitType)

\* getAdjacentNodes: the neighbour list without the ids that name no node.
getAdjacentNodes(nodeId) ==
    IF nodeId \notin Nodes THEN <<>>
    ELSE SelectSeq(adjacentNodes[nodeId], LAMBDA id : id \in Nodes)

(***************************************************************************)
(* MapManager.findReachableNodes                                           *)
(***************************************************************************)
ReachEntry(id, cost, special) == [id |-> id, cost |-> cost, specialMovement |-> special]

\* The body of the for loop over the neighbours of the dequeued node.
ReachVisit(st, cur, next, startNodeId, movementPoints, unit) ==
    LET moveCost == calculateMovementCost(cur.nodeId, next, unit)
        currentCost == st.visited[cur.nodeId]
        newCost == currentCost + moveCost
        newRemainingPoints == cur.remainingPoints - moveCost
    IN  IF moveCost = Infinity
        THEN IF cur.remainingPoints = movementPoints /\ cur.nodeId = startNodeId
             THEN [st EXCEPT !.visited[next] = movementPoints,
                             !.result = Append(@, ReachEntry(next, movementPoints, "fordingRiver"))]
             ELSE st
        ELSE IF moveCost < 0 \/ moveCost > cur.remainingPoints THEN st
        ELSE IF st.visited[next] = NotVisited \/ newCost < st.visited[next]
             THEN [visited |-> [st.visited EXCEPT ![next] = newCost],
                   result |-> Append(st.result, ReachEntry(next, newCost, "none")),
                   queue |-> IF newRemainingPoints > 0
                             THEN Append(st.queue, [nodeId |-> next,
                                                    remainingPoints |-> newRemainingPoints])
                             ELSE st.queue]
             ELSE st

RECURSIVE ReachNeighbours(_, _, _, _, _, _, _)
ReachNeighbours(st, cur, nbrs, i, startNodeId, movementPoints, unit) ==
    IF i > Len(nbrs) THEN st
    ELSE ReachNeighbours(ReachVisit(st, cur, nbrs[i], startNodeId, movementPoints, unit),
                         cur, nbrs, i + 1, startNodeId, movementPoints, unit)

\* while (queue.length > 0) { current = queue.shift(); ... }
RECURSIVE ReachLoop(_, _, _, _)
ReachLoop(st, startNodeId, movementPoints, unit) ==
    IF st.queue = <<>> THEN st
    ELSE LET current == Head(st.queue)
             rest == [st EXCEPT !.queue = Tail(@)]
         IN  ReachLoop(ReachNeighbours(rest, current, getAdjacentNodes(current.nodeId), 1,
                                       startNodeId, movementPoints, unit),
                       startNodeId, movementPoints, unit)

\* Rule 5.15, applied whenever a unit object was passed.
RECURSIVE ReachAllPoints(_, _, _, _, _, _)
ReachAllPoints(st, nbrs, i, startNodeId, movementPoints, unit) ==
    IF i > Len(nbrs) THEN st
    ELSE LET adj == nbrs[i]
             moveCost == calculateMovementCost(startNodeId, adj, unit)
             st2 == IF st.visited[adj] # NotVisited THEN st
                    ELSE IF moveCost > 0 /\ moveCost > movementPoints
                         THEN [st EXCEPT !.visited[adj] = movementPoints,
                                         !.result = Append(@, ReachEntry(adj, movementPoints,
                                                                        "allPointsMove"))]
                         ELSE st
         IN  ReachAllPoints(st2, nbrs, i + 1, startNodeId, movementPoints, unit)

findReachableNodes(startNodeId, movementPoints, unit) ==
    IF startNodeId \notin Nodes THEN <<>>
    ELSE LET st0 == [visited |-> [n \in Nodes |-> IF n = startNodeId THEN 0 ELSE NotVisited],
                     result |-> <<ReachEntry(startNodeId, 0, "none")>>,
                     queue |-> <<[nodeId |-> startNodeId, remainingPoints |-> movementPoints]>>]
             st1 == ReachLoop(st0, startNodeId, movementPoints, unit)
             st2 == IF unit.present
                    THEN ReachAllPoints(st1, getAdjacentNodes(startNodeId), 1,
                                        startNodeId, movementPoints, unit)
                    ELSE st1
         IN  st2.result

(***************************************************************************)
(* MapManager.findPath.  The scores are kept in hundredths, so that the    *)
(* heuristic (the straight-line distance divided by 100) is an integer.    *)
(***************************************************************************)
PathMaxIterations == 1000

ReconstructMaxIterations == 100

\* Math.sqrt on the squares the node coordinates of the model produce
SquareRoot == [s \in {d * d : d \in 0..(2 * 500)} |-> CHOOSE d \in 0..(2 * 500) : d * d = s]

\* Phaser.Math.Distance.Between on the node coordinates, for every pair of nodes
DistanceBetween ==
    [a \in Nodes |-> [b \in Nodes |->
        LET dx == nodeX[a] - nodeX[b]
            dy == nodeY[a] - nodeY[b]
        IN  SquareRoot[dx * dx + dy * dy]]]

Distance(a, b) == DistanceBetween[a][b]

\* 100 * heuristic(nodeA, nodeB)
heuristic(a, b) == Distance(a, b)

\* a + b on numbers that may be Infinity
Plus(a, b) == IF a = Infinity \/ b = Infinity THEN Infinity ELSE a + b

\* 100 * (g + heuristic)
FScore(g, h) == IF g = Infinity THEN 100 * Infinity ELSE 100 * g + h

\* openSet.reduce((lowest, nodeId) => fScore[nodeId] < fScore[lowest] ? nodeId : lowest, openSet[0])
RECURSIVE LowestFScore(_, _, _, _)
LowestFScore(openSet, fScore, i, lowest) ==
    IF i > Len(openSet) THEN lowest
    ELSE LowestFScore(openSet, fScore, i + 1,
                      IF fScore[openSet[i]] < fScore[lowest] THEN openSet[i] ELSE lowest)

\* while (cameFrom[current] && ...): an entry that is undefined or 0 ends the walk
RECURSIVE ReconstructWalk(_, _, _, _, _)
ReconstructWalk(cameFrom, current, totalPath, visitedNodes, safetyCounter) ==
    IF cameFrom[current] \in {Undefined, 0} \/ safetyCounter >= ReconstructMaxIterations
    THEN totalPath
    ELSE LET prev == cameFrom[current]
         IN  IF prev \in visitedNodes THEN totalPath
             ELSE ReconstructWalk(cameFrom, prev, <<prev>> \o totalPath,
                                  visitedNodes \cup {prev}, safetyCounter + 1)

reconstructPath(cameFrom, current) == ReconstructWalk(cameFrom, current, <<current>>, {current}, 0)

\* The fault claim C33 excludes: a search that gives up a passable step which
\* costs more than one point, and so finds no path where one exists.
PathVisitOfCheapSteps(st, current, neighborId, endNodeId, unit) ==
    LET moveCost == calculateMovementCost(current, neighborId, unit)
        tentativeGScore == Plus(st.gScore[current], moveCost)
    IN  IF neighborId \in st.closedSet THEN st
        ELSE IF moveCost < 0 \/ moveCost > 1 THEN st
        ELSE IF st.gScore[neighborId] \in {Undefined, 0} \/ tentativeGScore < st.gScore[neighborId]
             THEN [st EXCEPT !.cameFrom[neighborId] = current,
                             !.gScore[neighborId] = tentativeGScore,
                             !.fScore[neighborId] = FScore(tentativeGScore,
                                                           heuristic(neighborId, endNodeId)),
                             !.openSet = IF Includes(@, neighborId) THEN @
                                         ELSE Append(@, neighborId)]
             ELSE st

\* The body of the loop over the neighbours of current.
PathVisit(st, current, neighborId, endNodeId, unit) ==
    LET moveCost == calculateMovementCost(current, neighborId, unit)
        tentativeGScore == Plus(st.gScore[current], moveCost)
    IN  IF neighborId \in st.closedSet THEN st
        ELSE IF moveCost < 0 THEN st
        ELSE IF st.gScore[neighborId] \in {Undefined, 0} \/ tentativeGScore < st.gScore[neighborId]
             THEN [st EXCEPT !.cameFrom[neighborId] = current,
                             !.gScore[neighborId] = tentativeGScore,
                             !.fScore[neighborId] = FScore(tentativeGScore,
                                                           heuristic(neighborId, endNodeId)),
                             !.openSet = IF Includes(@, neighborId) THEN @
                                         ELSE Append(@, neighborId)]
             ELSE st

RECURSIVE PathNeighbours(_, _, _, _, _, _)
PathNeighbours(st, current, nbrs, i, endNodeId, unit) ==
    IF i > Len(nbrs) THEN st
    ELSE PathNeighbours(PathVisit(st, current, nbrs[i], endNodeId, unit),
                        current, nbrs, i + 1, endNodeId, unit)

RECURSIVE PathLoop(_, _, _)
PathLoop(st, endNodeId, unit) ==
    IF st.openSet = <<>> \/ st.iterations >= PathMaxIterations THEN <<>>
    ELSE LET current == LowestFScore(st.openSet, st.fScore, 1, st.openSet[1])
         IN  IF current = endNodeId THEN reconstructPath(st.cameFrom, current)
             ELSE LET st1 == [st EXCEPT !.iterations = @ + 1,
                                        !.openSet = Splice(@, FindIndex(@, current)),
                                        !.closedSet = @ \cup {current}]
                  IN  PathLoop(PathNeighbours(st1, current, getAdjacentNodes(current), 1,
                                              endNodeId, unit),
                               endNodeId, unit)

\* The node ids of the model are integers: parseInt returns them as they are.
findPath(startNodeId, endNodeId, unit) ==
    IF startNodeId \notin Nodes \/ endNodeId \notin Nodes THEN <<>>
    ELSE IF startNodeId = endNodeId THEN <<startNodeId>>
    ELSE PathLoop([openSet |-> <<startNodeId>>,
                   closedSet |-> {},
                   cameFrom |-> [n \in Nodes |-> Undefined],
                   gScore |-> [n \in Nodes |-> IF n = startNodeId THEN 0 ELSE Undefined],
                   fScore |-> [n \in Nodes |-> IF n = startNodeId
                                               THEN heuristic(startNodeId, endNodeId)
                                               ELSE Undefined],
                   iterations |-> 0],
                  endNodeId, unit)

(***************************************************************************)
(* Unit.moveToNode and Monster.moveToNode (the two methods have the same   *)
(* body): what the call returns and the timeline it plays.                 *)
(***************************************************************************)
\* return false: nothing is played
NoMove == [ok |-> FALSE, to |-> Undefined, totalCost |-> 0, path |-> <<>>,
           specialMovement |-> "none"]

\* this.moveAlongPath(path, totalCost); return true.  specialMovement names the
\* rule that let the entity spend all its points, "none" for a path that was paid.
Played(path, totalCost, specialMovement) ==
    [ok |-> TRUE, to |-> path[Len(path)], totalCost |-> totalCost, path |-> path,
     specialMovement |-> specialMovement]

\* reachableNodes.find(node => node.id === targetNodeId), 0 when there is none
FindEntry(reachableNodes, targetNodeId) ==
    IF \E i \in 1..Len(reachableNodes) : reachableNodes[i].id = targetNodeId
    THEN CHOOSE i \in 1..Len(reachableNodes) :
             /\ reachableNodes[i].id = targetNodeId
             /\ \A j \in 1..(i - 1) : reachableNodes[j].id # targetNodeId
    ELSE 0

\* The loop that sums the cost of the path; an Infinity step costs all points.
RECURSIVE PathCost(_, _, _, _, _)
PathCost(path, i, totalCost, currentMovementPoints, self) ==
    IF i > Len(path) - 1 THEN totalCost
    ELSE LET cost == calculateMovementCost(path[i], path[i + 1], self)
         IN  IF cost = Infinity THEN currentMovementPoints
             ELSE PathCost(path, i + 1, totalCost + cost, currentMovementPoints, self)

\* moveToNode once reachableNodes and path are computed
MoveDecision(currentNodeId, currentMovementPoints, self, targetNodeId, reachableNodes, path) ==
    LET targetInfo == FindEntry(reachableNodes, targetNodeId)
        totalCost == PathCost(path, 1, 0, currentMovementPoints, self)
    IN  IF targetInfo # 0 /\ reachableNodes[targetInfo].specialMovement # "none"
        THEN Played(<<currentNodeId, targetNodeId>>, currentMovementPoints,
                    reachableNodes[targetInfo].specialMovement)
        ELSE IF Len(path) = 0 THEN NoMove
        ELSE IF totalCost > currentMovementPoints
             THEN IF Includes(adjacentNodes[currentNodeId], targetNodeId)
                  THEN Played(<<currentNodeId, targetNodeId>>, currentMovementPoints,
                              "rule 5.15")
                  ELSE NoMove
        ELSE Played(path, totalCost, "none")

moveToNode(currentNodeId, currentMovementPoints, self, targetNodeId) ==
    IF targetNodeId \notin Nodes THEN NoMove
    ELSE MoveDecision(currentNodeId, currentMovementPoints, self, targetNodeId,
                      findReachableNodes(currentNodeId, currentMovementPoints, self),
                      findPath(currentNodeId, targetNodeId, self))

(***************************************************************************)
(* The scenario: one Monster and two Units, as the scene creates them.     *)
(* The scene gives every entity an id and every unit the faction 'human'.  *)
(***************************************************************************)
MonsterId == "monster-1"

UnitIds == {"u1", "u2"}

unitType == [u \in UnitIds |-> IF u = "u1" THEN "infantry" ELSE "firemen"]

unitFaction == [u \in UnitIds |-> "human"]

unitStartNode == [u \in UnitIds |-> IF u = "u1" THEN 5 ELSE 3]

monsterStartNode == 1

ScenarioTerrain ==
    [n \in DOMAIN ScenarioNodes |->
        CASE n = 1 -> "street"
          [] n = 2 -> "lowBuilding"
          [] n = 3 -> "park"
          [] n = 4 -> "river"
          [] n = 5 -> "street"]

\* Monster constructor: config.buildingDestruction || 3 and so on.
MonsterStrengths == [attack |-> 5, defense |-> 10, buildingDestruction |-> 3,
                     movement |-> MonsterMovement]

\* Unit constructor: the default stats with the scenario's movement allowance.
UnitStats == [movementPoints |-> UnitMovement, attack |-> 2, defense |-> 2]

\* GameState.config
victoryPointGoal == 100

(***************************************************************************)
(* The world a handler runs in: every handler below maps a world to the    *)
(* world it leaves behind, and calls the handlers the code calls, the      *)
(* listeners of the events it emits included.                              *)
(*   terrain, tm, gs, monster, units, timelines: the program's state       *)
(*   over: the 'game-over' events emitted                                  *)
(*   spread: how often this handler ran FireManager.spreadFires            *)
(***************************************************************************)
\* DataManager before its files are loaded: isLoaded.combatTables is false
NoData == [isLoaded |-> FALSE, combatTables |-> [odds |-> <<>>, results |-> <<>>]]

\* the data sets of DataManager, in the order loadAll starts their loads
DataKeys == <<"combatTables", "unitStats", "mapNodes", "scenarios">>

Keys == {DataKeys[i] : i \in 1..Len(DataKeys)}

\* cache.json.get of a key the cache does not hold (undefined), and the value
\* of a field of DataManager before its load (null)
Absent == "absent"

\* The scene's loader and JSON cache and the DataManager before loadAll:
\*   state, list, inflight: the LoaderPlugin's state, its files that wait and
\*     its files that are being loaded
\*   listeners: the keys whose 'complete' handlers are registered, in order
\*   cache: the JSON cache by key
\*   isLoaded, data: DataManager.isLoaded and the four data fields
\*   promises, all: the promises of the four loads and the one of loadAll
\*   failed, order: history, the files whose load failed and the order in
\*     which the loads of the files ended
NoLoad ==
    [state |-> "idle", list |-> {}, inflight |-> {}, listeners |-> <<>>,
     cache |-> [k \in Keys |-> Absent],
     isLoaded |-> [k \in Keys |-> FALSE], data |-> [k \in Keys |-> Absent],
     promises |-> [k \in Keys |-> "none"], all |-> "none",
     failed |-> {}, order |-> <<>>]

World ==
    [terrain |-> terrainType, tm |-> turnManager, gs |-> gameState, monster |-> monster,
     units |-> units, timelines |-> timelines, over |-> gameOver, spread |-> 0,
     data |-> dataManager]

(***************************************************************************)
(* GameState (src/src/managers/FireManager.js, second class of the file)   *)
(***************************************************************************)
EmptyContents == [units |-> <<>>, monsters |-> <<>>, markers |-> <<>>]

addToNode(gs, nodeId, category, id) ==
    [gs EXCEPT !.nodeContents[nodeId][category] = Append(@, id)]

\* nodeContents[undefined] is undefined: the call returns at once.
removeFromNode(gs, nodeId, category, id) ==
    IF nodeId \notin Nodes THEN gs
    ELSE LET index == FindIndex(gs.nodeContents[nodeId][category], id)
         IN  IF index # 0
             THEN [gs EXCEPT !.nodeContents[nodeId][category] = Splice(@, index)]
             ELSE gs

endGame(w, winner, condition) ==
    [w EXCEPT !.over = Append(@, [winner |-> winner, condition |-> condition,
                                  turns |-> w.gs.currentTurn])]

getHumanUnitCount(gs) == Cardinality({u \in gs.units : unitFaction[u] = "human"})

checkVictoryConditions(w) ==
    IF w.gs.victoryPoints.monster >= victoryPointGoal
    THEN endGame(w, "monster", "victory-points")
    ELSE IF w.gs.monsters = {} THEN endGame(w, "human", "monster-defeated")
    ELSE IF getHumanUnitCount(w.gs) = 0 THEN endGame(w, "monster", "humans-defeated")
    ELSE IF w.gs.currentTurn > maxTurns
         THEN endGame(w, IF w.gs.victoryPoints.monster > w.gs.victoryPoints.human
                         THEN "monster" ELSE "human", "max-turns-reached")
    ELSE w

registerUnit(w, u) ==
    [w EXCEPT !.gs = addToNode([w.gs EXCEPT !.units = @ \cup {u}],
                               w.units[u].currentNodeId, "units", u)]

unregisterUnit(w, u) ==
    checkVictoryConditions(
        [w EXCEPT !.gs = removeFromNode([w.gs EXCEPT !.units = @ \ {u}],
                                        w.units[u].currentNodeId, "units", u)])

\* 'unit-moved': unit.previousNodeId is what the unit object holds.
updateUnitPosition(w, u) ==
    [w EXCEPT !.gs = addToNode(removeFromNode(w.gs, w.units[u].previousNodeId, "units", u),
                               w.units[u].currentNodeId, "units", u)]

registerMonster(w) ==
    [w EXCEPT !.gs = addToNode([w.gs EXCEPT !.monsters = @ \cup {MonsterId}],
                               w.monster.currentNodeId, "monsters", MonsterId)]

MarkerIds(gs) == {gs.markers[i].id : i \in 1..Len(gs.markers)}

MarkerById(gs, id) == gs.markers[CHOOSE i \in 1..Len(gs.markers) : gs.markers[i].id = id]

\* A marker id no marker of the game carries (the code draws it from the clock).
NewMarkerId(gs) == CHOOSE n \in 1..(Len(gs.markers) + 1) :
                       /\ n \notin MarkerIds(gs)
                       /\ \A m \in 1..(n - 1) : m \in MarkerIds(gs)

registerMarker(w, marker) ==
    LET w1 == [w EXCEPT !.gs = addToNode([w.gs EXCEPT !.markers = Append(@, marker)],
                                         marker.nodeId, "markers", marker.id)]
    IN  IF marker.type \in {"fire", "rubble"} THEN checkVictoryConditions(w1) ELSE w1

unregisterMarker(w, marker) ==
    LET kept == SelectSeq(w.gs.markers, LAMBDA m : m.id # marker.id)
        w1 == [w EXCEPT !.gs = removeFromNode([w.gs EXCEPT !.markers = kept],
                                              marker.nodeId, "markers", marker.id)]
    IN  IF marker.type \in {"fire", "rubble"} THEN checkVictoryConditions(w1) ELSE w1

getUnitsAtNode(gs, nodeId) == IF nodeId \in Nodes THEN gs.nodeContents[nodeId].units ELSE <<>>

getMonstersAtNode(gs, nodeId) ==
    IF nodeId \in Nodes THEN gs.nodeContents[nodeId].monsters ELSE <<>>

\* getMarkersAtNode(nodeId, type): the marker objects of the node, filtered by type
getMarkersAtNode(gs, nodeId, type) ==
    IF nodeId \notin Nodes THEN <<>>
    ELSE LET ids == gs.nodeContents[nodeId].markers
             all == [i \in 1..Len(ids) |-> MarkerById(gs, ids[i])]
         IN  SelectSeq(all, LAMBDA m : m.type = type)

hasMarker(gs, nodeId, markerType) == Len(getMarkersAtNode(gs, nodeId, markerType)) > 0

\* 'turn-changed'.  rollWindDirection writes config.windDirection, which only
\* the methods of a FireMarker instance read: the model does not keep it.
onTurnChanged(w, data) ==
    LET gs1 == [w.gs EXCEPT !.currentPlayer = data.player,
                            !.currentTurn = IF data.player = "monster" THEN data.turn ELSE @]
    IN  checkVictoryConditions([w EXCEPT !.gs = gs1])

(***************************************************************************)
(* MapManager methods the managers call and src/ does not define           *)
(***************************************************************************)
\* mapManager.getNode(nodeId): the node or nothing; TRUE when there is a node
getNode(nodeId) == nodeId \in Nodes

\* mapManager.areNodesAdjacent(a, b)
areNodesAdjacent(a, b) == a \in Nodes /\ b \in Nodes /\ Includes(adjacentNodes[a], b)

(***************************************************************************)
(* FireManager.  The module never imports FireMarker, so createFireMarker  *)
(* builds the placeholder object and the managers take their fallback      *)
(* branches for a marker without methods.                                  *)
(***************************************************************************)
validTerrains == {"lowBuilding", "highBuilding", "park"}

FireIds(gs) == {gs.markers[i].id : i \in {j \in 1..Len(gs.markers) : gs.markers[j].type = "fire"}}

setIntensity(gs, id, value) ==
    [gs EXCEPT !.markers = [i \in 1..Len(@) |->
                               IF @[i].id = id THEN [@[i] EXCEPT !.intensity = value] ELSE @[i]]]

\* The fault claim C22 excludes: a burning node takes one more fire marker.
createFireMarkerOnBurningNode(w, nodeId, intensity) ==
    IF ~getNode(nodeId) THEN w
    ELSE IF w.terrain[nodeId] \notin validTerrains THEN w
    ELSE registerMarker(w, [id |-> NewMarkerId(w.gs), type |-> "fire", nodeId |-> nodeId,
                            intensity |-> intensity])

createFireMarker(w, nodeId, intensity) ==
    IF hasMarker(w.gs, nodeId, "fire") THEN w
    ELSE IF ~getNode(nodeId) THEN w
    ELSE IF w.terrain[nodeId] \notin validTerrains THEN w
    ELSE registerMarker(w, [id |-> NewMarkerId(w.gs), type |-> "fire", nodeId |-> nodeId,
                            intensity |-> intensity])

onFireStarted(w, data) == createFireMarker(w, data.nodeId, IF data.stage # 0 THEN data.stage ELSE 1)

\* The random draws of one spreadFires call:
\*   spread: the pairs <<fire id, target node>> whose spread roll succeeds
\*   increase: the pairs whose Math.random() < 0.3
\*   destroy: the fire ids whose building destruction roll succeeds
NoDraws == [spread |-> {}, increase |-> {}, destroy |-> {}]

\* The first loop of spreadFires, for the targets adj[i..] of one fire.
RECURSIVE SpreadTargets(_, _, _, _, _, _)
SpreadTargets(w, acc, fire, adj, i, draws) ==
    IF i > Len(adj) THEN acc
    ELSE LET target == adj[i]
             existingFires == getMarkersAtNode(w.gs, target, "fire")
             acc2 ==
                 IF Includes(acc.nodesToAddFire, target) THEN acc
                 ELSE IF hasMarker(w.gs, target, "fire")
                      THEN IF Len(existingFires) > 0 /\ <<fire.id, target>> \in draws.increase
                           THEN [acc EXCEPT !.firesToIncrease = Append(@, existingFires[1].id)]
                           ELSE acc
                 ELSE IF ~getNode(target) THEN acc
                 ELSE IF w.terrain[target] \notin validTerrains THEN acc
                 ELSE IF <<fire.id, target>> \in draws.spread
                      THEN [acc EXCEPT !.nodesToAddFire = Append(@, target)]
                      ELSE acc
         IN  SpreadTargets(w, acc2, fire, adj, i + 1, draws)

RECURSIVE SpreadCollect(_, _, _, _, _)
SpreadCollect(w, acc, fires, k, draws) ==
    IF k > Len(fires) THEN acc
    ELSE LET fire == fires[k]
             acc2 == IF ~getNode(fire.nodeId) THEN acc
                     ELSE SpreadTargets(w, acc, fire, adjacentNodes[fire.nodeId], 1, draws)
         IN  SpreadCollect(w, acc2, fires, k + 1, draws)

RECURSIVE SpreadCreate(_, _, _)
SpreadCreate(w, nodesToAddFire, i) ==
    IF i > Len(nodesToAddFire) THEN w
    ELSE SpreadCreate(createFireMarker(w, nodesToAddFire[i], 1), nodesToAddFire, i + 1)

Min(a, b) == IF a < b THEN a ELSE b

RECURSIVE SpreadIncrease(_, _, _)
SpreadIncrease(w, firesToIncrease, i) ==
    IF i > Len(firesToIncrease) THEN w
    ELSE LET id == firesToIncrease[i]
             value == Min(3, MarkerById(w.gs, id).intensity + 1)
         IN  SpreadIncrease([w EXCEPT !.gs = setIntensity(@, id, value)], firesToIncrease, i + 1)

checkForBuildingDestruction(w, fire, roll) ==
    IF ~getNode(fire.nodeId) THEN w
    ELSE IF w.terrain[fire.nodeId] \notin {"lowBuilding", "highBuilding"} THEN w
    ELSE IF ~roll THEN w
    ELSE LET w1 == unregisterMarker([w EXCEPT !.terrain[fire.nodeId] = "rubble"], fire)
         IN  registerMarker(w1, [id |-> NewMarkerId(w1.gs), type |-> "rubble",
                                 nodeId |-> fire.nodeId, intensity |-> 0])

RECURSIVE SpreadDestroy(_, _, _, _)
SpreadDestroy(w, fires, k, draws) ==
    IF k > Len(fires) THEN w
    ELSE LET fire == MarkerById(w.gs, fires[k].id)
             w2 == IF fire.intensity >= 3
                   THEN checkForBuildingDestruction(w, fire, fire.id \in draws.destroy)
                   ELSE w
         IN  SpreadDestroy(w2, fires, k + 1, draws)

spreadFires(w, draws) ==
    LET fireMarkers == SelectSeq(w.gs.markers, LAMBDA m : m.type = "fire")
        acc == SpreadCollect(w, [nodesToAddFire |-> <<>>, firesToIncrease |-> <<>>],
                             fireMarkers, 1, draws)
        w1 == SpreadCreate([w EXCEPT !.spread = @ + 1], acc.nodesToAddFire, 1)
        w2 == SpreadIncrease(w1, acc.firesToIncrease, 1)
    IN  SpreadDestroy(w2, fireMarkers, 1, draws)

\* The fault claim C7 excludes: the fires spread at the end of either player's turn.
onTurnEndOfEitherPlayer(w, data, draws) == spreadFires(w, draws)

\* 'turn-end-effects-applied'
onTurnEnd(w, data, draws) == IF data.player = "human" THEN spreadFires(w, draws) ELSE w

\* The draws that can differ in their effect in the world w.
SpreadDraws(w) ==
    LET fires == FireIds(w.gs)
        pairs == {p \in fires \X Nodes :
                    Includes(adjacentNodes[MarkerById(w.gs, p[1]).nodeId], p[2])}
        cold == {p \in pairs : ~hasMarker(w.gs, p[2], "fire") /\ w.terrain[p[2]] \in validTerrains}
        hot == {p \in pairs : hasMarker(w.gs, p[2], "fire")}
        tall == {f \in fires :
                    w.terrain[MarkerById(w.gs, f).nodeId] \in {"lowBuilding", "highBuilding"}}
    IN  [spread : SUBSET cold, increase : SUBSET hot, destroy : SUBSET tall]

(***************************************************************************)
(* TurnManager (src/unnamed/part_002)                                      *)
(***************************************************************************)
ActionTypes == {"movement", "combat", "destruction", "fire-control"}

monsterPhases == <<"movement", "combat", "destruction">>

humanPhases == <<"movement", "combat", "fire-control">>

actionLimits == [a \in ActionTypes |-> IF a = "destruction" THEN 3 ELSE Infinity]

\* phases.indexOf(x), counted from 1; 0 when x is no element
IndexOf(s, x) == FindIndex(s, x)

resetActions(tm) == [tm EXCEPT !.actionsRemaining = actionLimits, !.readyToAdvance = FALSE]

resetActionsForCurrentSubPhase(tm) ==
    [tm EXCEPT !.actionsRemaining[tm.currentSubPhase] = actionLimits[tm.currentSubPhase],
               !.readyToAdvance = FALSE]

\* Unit.resetMovementPoints: findArtilleryInSameNode returns null, so nothing is towed.
resetMovementPoints(unit) == [unit EXCEPT !.currentMovementPoints = UnitStats.movementPoints]

\* The fault claim C28 excludes: a turn start resets the budgets of both sides.
applyTurnStartEffectsOfBothSides(w) ==
    [w EXCEPT !.monster.currentMovementPoints = MonsterStrengths.movement,
              !.units = [u \in UnitIds |->
                            IF u \in w.gs.units THEN resetMovementPoints(@[u]) ELSE @[u]]]

\* The Monster has no resetMovementPoints method: the fallback branch runs.
applyTurnStartEffects(w) ==
    IF w.tm.currentPhase = "monster"
    THEN IF MonsterId \in w.gs.monsters
         THEN [w EXCEPT !.monster.currentMovementPoints =
                           IF MonsterStrengths.movement # 0 THEN MonsterStrengths.movement ELSE 4]
         ELSE w
    ELSE [w EXCEPT !.units = [u \in UnitIds |->
                                 IF u \in w.gs.units THEN resetMovementPoints(@[u]) ELSE @[u]]]

\* handleFireSpread only logs
handleFireSpread(w) == w

applyTurnEndEffects(w, draws) ==
    LET w1 == IF w.tm.currentPhase = "monster" THEN w ELSE handleFireSpread(w)
    IN  onTurnEnd(w1, [turn |-> w1.tm.currentTurn, player |-> w1.tm.currentPhase], draws)

\* The fault claim C5 excludes: the counter advances on every change of player.
nextTurnCountingBothTurns(w) ==
    LET tm1 == IF w.tm.currentPhase = "monster"
               THEN [w.tm EXCEPT !.currentPhase = "human", !.currentSubPhase = humanPhases[1],
                                 !.currentTurn = @ + 1]
               ELSE [w.tm EXCEPT !.currentPhase = "monster",
                                 !.currentSubPhase = monsterPhases[1],
                                 !.currentTurn = @ + 1]
        w1 == applyTurnStartEffects([w EXCEPT !.tm = resetActions(tm1)])
    IN  onTurnChanged(w1, [turn |-> w1.tm.currentTurn, player |-> w1.tm.currentPhase,
                           subPhase |-> w1.tm.currentSubPhase])

nextTurn(w) ==
    LET tm1 == IF w.tm.currentPhase = "monster"
               THEN [w.tm EXCEPT !.currentPhase = "human", !.currentSubPhase = humanPhases[1]]
               ELSE [w.tm EXCEPT !.currentPhase = "monster",
                                 !.currentSubPhase = monsterPhases[1],
                                 !.currentTurn = @ + 1]
        w1 == applyTurnStartEffects([w EXCEPT !.tm = resetActions(tm1)])
    IN  onTurnChanged(w1, [turn |-> w1.tm.currentTurn, player |-> w1.tm.currentPhase,
                           subPhase |-> w1.tm.currentSubPhase])

endCurrentTurn(w, draws) == nextTurn(applyTurnEndEffects(w, draws))

\* The fault claim C6 excludes: the step from the first sub-phase goes to the last.
nextSubPhaseSkipping(w, draws) ==
    LET phases == IF w.tm.currentPhase = "monster" THEN monsterPhases ELSE humanPhases
        currentIndex == IndexOf(phases, w.tm.currentSubPhase)
    IN  IF currentIndex < Len(phases)
        THEN [w EXCEPT !.tm = resetActionsForCurrentSubPhase(
                                  [@ EXCEPT !.currentSubPhase = phases[Len(phases)]])]
        ELSE endCurrentTurn(w, draws)

nextSubPhase(w, draws) ==
    LET phases == IF w.tm.currentPhase = "monster" THEN monsterPhases ELSE humanPhases
        currentIndex == IndexOf(phases, w.tm.currentSubPhase)
    IN  IF currentIndex < Len(phases)
        THEN [w EXCEPT !.tm = resetActionsForCurrentSubPhase(
                                  [@ EXCEPT !.currentSubPhase = phases[currentIndex + 1]])]
        ELSE endCurrentTurn(w, draws)

\* applySubPhaseEndEffects only emits an event the interface listens to
endCurrentSubPhase(w, draws) == nextSubPhase(w, draws)

canPerformAction(tm, actionType) ==
    /\ tm.currentSubPhase = actionType
    /\ tm.actionsRemaining[actionType] > 0

\* x-- on a number that may be Infinity
Decrement(x) == IF x = Infinity THEN Infinity ELSE x - 1

\* The fault claim C8 excludes: the counter is decremented before the check.
consumeActionUnchecked(tm, actionType) ==
    IF actionType \in ActionTypes
    THEN [tm EXCEPT !.actionsRemaining[actionType] = Decrement(@)]
    ELSE tm

\* consumeAction returns canPerformAction and leaves this turn manager behind
consumeAction(tm, actionType) ==
    IF ~canPerformAction(tm, actionType) THEN tm
    ELSE [tm EXCEPT !.actionsRemaining[actionType] = Decrement(@)]

checkAllUnitsMoved(w) ==
    IF w.tm.currentPhase = "monster"
    THEN \A m \in w.gs.monsters : ~(w.monster.currentMovementPoints > 0)
    ELSE \A u \in w.gs.units :
             ~(unitFaction[u] = "human" /\ w.units[u].currentMovementPoints > 0)

onMovementCompleted(w) ==
    IF checkAllUnitsMoved(w) THEN [w EXCEPT !.tm.readyToAdvance = TRUE] ELSE w

onCombatCompleted(w) == [w EXCEPT !.tm = consumeAction(@, "combat")]

onDestructionCompleted(w, successful) ==
    LET tm1 == IF successful THEN consumeAction(w.tm, "destruction") ELSE w.tm
    IN  [w EXCEPT !.tm = IF tm1.actionsRemaining["destruction"] <= 0
                         THEN [tm1 EXCEPT !.readyToAdvance = TRUE] ELSE tm1]

onFireControlCompleted(w) == [w EXCEPT !.tm = consumeAction(@, "fire-control")]

(***************************************************************************)
(* The state after GameScene.create: the managers are constructed, the     *)
(* entities are created and registered, TurnManager.startGame has run.     *)
(***************************************************************************)
InitTurnManager ==
    [currentTurn |-> 1, currentPhase |-> "monster", currentSubPhase |-> monsterPhases[1],
     actionsRemaining |-> actionLimits, readyToAdvance |-> FALSE]

InitMonster ==
    [currentNodeId |-> monsterStartNode, currentMovementPoints |-> MonsterStrengths.movement,
     remainingDestructionAttempts |-> 3, victoryPoints |-> 0,
     strengths |-> MonsterStrengths, specialAbilities |-> {}]

InitUnits ==
    [u \in UnitIds |-> [currentNodeId |-> unitStartNode[u], previousNodeId |-> Undefined,
                        currentMovementPoints |-> UnitStats.movementPoints,
                        destroyed |-> FALSE]]

NewGameState ==
    [units |-> {}, monsters |-> {}, markers |-> <<>>, currentTurn |-> 1,
     currentPlayer |-> "monster", victoryPoints |-> [monster |-> 0, human |-> 0],
     nodeContents |-> [n \in Nodes |-> EmptyContents]]

InitWorld ==
    LET w0 == [terrain |-> ScenarioTerrain, tm |-> InitTurnManager, gs |-> NewGameState,
               monster |-> InitMonster, units |-> InitUnits, timelines |-> <<>>,
               over |-> <<>>, spread |-> 0, data |-> NoData]
    IN  registerUnit(registerUnit(registerMonster(w0), "u1"), "u2")

NoLedger == [attempts |-> 0, points |-> 0, ops |-> 0, ignitions |-> 0]

\* history: the operation op was called for the entity who with the argument
\* arg, it returned ok, and its handler ran spreadFires spread times
Called(op, who, arg, ok, spread) ==
    [op |-> op, who |-> who, arg |-> arg, ok |-> ok, spread |-> spread]

\* What the players do in one game besides ending phases and turns: they
\* consume actions, move, attempt destructions, attack or fight fires.
Sessions == {"actions", "movement", "destruction", "combat", "fire"}

InitEngine ==
    /\ turnManager = InitWorld.tm
    /\ gameState = InitWorld.gs
    /\ monster = InitWorld.monster
    /\ units = InitWorld.units
    /\ timelines = <<>>
    /\ gameOver = <<>>
    /\ ledger = NoLedger
    /\ lastOp = Called("create", Undefined, Undefined, TRUE, 0)

Init ==
    /\ nodes = ScenarioNodes
    /\ terrainType = ScenarioTerrain
    /\ InitEngine
    /\ session \in Sessions
    /\ dataManager = NoData
    /\ dataLoad = NoLoad
    /\ query = NoQuery
    /\ reachable = <<>>
    /\ foundPath = <<>>
    /\ moveResult = NoMove

\* The step leaves the world w behind.
Commit(w) ==
    /\ terrainType' = w.terrain
    /\ turnManager' = w.tm
    /\ gameState' = w.gs
    /\ monster' = w.monster
    /\ units' = w.units
    /\ timelines' = w.timelines
    /\ gameOver' = w.over
    /\ UNCHANGED <<nodes, session, dataManager, dataLoad, query, reachable, foundPath,
                   moveResult>>

\* GameState.endGame starts the victory scene: this scene takes no further input.
Running == gameOver = <<>>

\* The players may issue one more operation of the session s.
MayIssue(s) ==
    /\ Running
    /\ session = s
    /\ ledger.ops < (IF s \in {"movement", "combat"} THEN MaxMoves ELSE MaxOps)

Issued == [ledger EXCEPT !.ops = @ + 1]

\* spreadFires runs when the human turn ends.
DrawsAt(w) == IF w.tm.currentPhase = "human" THEN SpreadDraws(w) ELSE {NoDraws}

\* history: a new game turn starts with no destruction attempt made
LedgerAfter(w) ==
    IF turnManager.currentPhase = "human" /\ w.tm.currentPhase = "monster"
    THEN [ledger EXCEPT !.attempts = 0, !.points = 0, !.ignitions = 0]
    ELSE ledger

\* keydown-E, 'end-turn-clicked'
EndTurn ==
    /\ Running
    /\ \E draws \in DrawsAt(World) :
           LET w == endCurrentTurn(World, draws)
           IN  /\ Commit(w)
               /\ ledger' = LedgerAfter(w)
               /\ lastOp' = Called("endCurrentTurn", Undefined, Undefined, TRUE, w.spread)

\* keydown-P, 'end-phase-clicked'
EndPhase ==
    /\ Running
    /\ \E draws \in DrawsAt(World) :
           LET w == endCurrentSubPhase(World, draws)
           IN  /\ Commit(w)
               /\ ledger' = LedgerAfter(w)
               /\ lastOp' = Called("endCurrentSubPhase", Undefined, Undefined, TRUE, w.spread)

(***************************************************************************)
(* Movement.  moveToNode plays a timeline and returns; the entity's node   *)
(* and movement points change when the timeline completes.                 *)
(***************************************************************************)
Timeline(entity, move) == [entity |-> entity, to |-> move.to, totalCost |-> move.totalCost]

\* moveAlongPath: timeline.play()
moveAlongPath(w, entity, move) == [w EXCEPT !.timelines = Append(@, Timeline(entity, move))]

UnitSelf(u) == UnitOfType(unitType[u])

unitMoveToNode(w, u, targetNodeId) ==
    moveToNode(w.units[u].currentNodeId, w.units[u].currentMovementPoints, UnitSelf(u),
               targetNodeId)

monsterMoveToNode(w, targetNodeId) ==
    moveToNode(w.monster.currentNodeId, w.monster.currentMovementPoints, MonsterInstance,
               targetNodeId)

\* timeline.on('complete', ...) of Unit.moveAlongPath.  A destroyed unit has
\* no scene any more: the callback fails at the emit, after its assignments.
unitTimelineComplete(w, t) ==
    LET u == t.entity
        w1 == [w EXCEPT !.units[u].currentNodeId = t.to,
                        !.units[u].currentMovementPoints = @ - t.totalCost]
    IN  IF w.units[u].destroyed THEN w1 ELSE updateUnitPosition(w1, u)

\* timeline.on('complete', ...) of Monster.moveAlongPath: 'monster-moved' has
\* no listener in the managers.
monsterTimelineComplete(w, t) ==
    [w EXCEPT !.monster.currentNodeId = t.to,
              !.monster.currentMovementPoints = @ - t.totalCost]

\* moveToNode calls moveAlongPath when it accepts the move
PlayMove(w, entity, move) == IF move.ok THEN moveAlongPath(w, entity, move) ELSE w

MoveUnit ==
    /\ MayIssue("movement")
    /\ \E u \in UnitIds, targetNodeId \in Nodes :
           /\ ~units[u].destroyed
           /\ \E move \in {unitMoveToNode(World, u, targetNodeId)} :
                  /\ Commit(PlayMove(World, u, move))
                  /\ ledger' = Issued
                  /\ lastOp' = Called("Unit.moveToNode", u, targetNodeId, move.ok, 0)

MoveMonster ==
    /\ MayIssue("movement")
    /\ \E targetNodeId \in Nodes :
           \E move \in {monsterMoveToNode(World, targetNodeId)} :
               /\ Commit(PlayMove(World, MonsterId, move))
               /\ ledger' = Issued
               /\ lastOp' = Called("Monster.moveToNode", MonsterId, targetNodeId, move.ok, 0)

TimelineComplete ==
    /\ Running
    /\ \E i \in 1..Len(timelines) :
           LET t == timelines[i]
               w == [World EXCEPT !.timelines = Splice(@, i)]
           IN  /\ Commit(IF t.entity = MonsterId THEN monsterTimelineComplete(w, t)
                                                 ELSE unitTimelineComplete(w, t))
               /\ ledger' = ledger
               /\ lastOp' = Called("timeline.complete", t.entity, t.to, TRUE, 0)

(***************************************************************************)
(* Monster: destruction (src/buildplans/Architecture.md)                   *)
(***************************************************************************)
DieRolls == 1..6

getTargetDestructionStrength(terrain) ==
    CASE terrain = "lowBuilding" -> 2
      [] terrain = "highBuilding" -> 4
      [] terrain = "bridge" -> 2
      [] OTHER -> 1

Max(a, b) == IF a > b THEN a ELSE b

\* 'node-destroyed' has no listener in the managers.
destroyNode(w, nodeId, terrain) ==
    IF ~getNode(nodeId) THEN w
    ELSE LET originalTerrain == w.terrain[nodeId]
             pointsGained == CASE originalTerrain = "lowBuilding" -> 3
                               [] originalTerrain = "highBuilding" -> 5
                               [] originalTerrain = "bridge" -> 5
                               [] OTHER -> 0
         IN  [w EXCEPT !.terrain[nodeId] = IF terrain = "bridge" THEN "river" ELSE "rubble",
                       !.monster.victoryPoints = @ + pointsGained]

\* The destruction strength an accepted attempt applies.
destructionStrength == MonsterStrengths.buildingDestruction

\* Returns [ok, w]: what the call returns and the world it leaves behind.
\* 'monster-destruction-attempt' has no listener in the managers.
attemptDestruction(w, targetNodeId, dieRoll) ==
    IF w.monster.remainingDestructionAttempts <= 0 THEN [ok |-> FALSE, w |-> w]
    ELSE IF ~getNode(targetNodeId) THEN [ok |-> FALSE, w |-> w]
    ELSE IF \/ ~getNode(w.monster.currentNodeId)
            \/ ~Includes(adjacentNodes[w.monster.currentNodeId], targetNodeId)
         THEN [ok |-> FALSE, w |-> w]
    ELSE IF w.terrain[targetNodeId] \notin {"lowBuilding", "highBuilding", "bridge"}
         THEN [ok |-> FALSE, w |-> w]
    ELSE LET w1 == [w EXCEPT !.monster.remainingDestructionAttempts = @ - 1]
             buildingStrength == getTargetDestructionStrength(w.terrain[targetNodeId])
             ratio == destructionStrength \div buildingStrength
             cappedRatio == Min(5, Max(1, ratio))
             successThreshold == 7 - cappedRatio
             success == dieRoll >= successThreshold
         IN  [ok |-> TRUE,
              w |-> IF success THEN destroyNode(w1, targetNodeId, w.terrain[targetNodeId])
                    ELSE w1]

AttemptDestruction ==
    /\ MayIssue("destruction")
    /\ \E targetNodeId \in Nodes \cup MissingNodes, dieRoll \in DieRolls :
           LET r == attemptDestruction(World, targetNodeId, dieRoll)
           IN  /\ Commit(r.w)
               /\ ledger' = IF r.ok
                             THEN [Issued EXCEPT !.attempts = @ + 1,
                                                 !.points = @ + destructionStrength]
                             ELSE Issued
               /\ lastOp' = Called("Monster.attemptDestruction", MonsterId, targetNodeId,
                                   r.ok, 0)

(***************************************************************************)
(* CombatManager.  The combat tables are not loaded (their file is no part *)
(* of the sources): resolveCombat takes the fallback resolution.           *)
(***************************************************************************)
Entities == {MonsterId} \cup UnitIds

\* entity.constructor.name === 'Monster'
IsMonster(e) == e = MonsterId

NodeOf(w, e) == IF IsMonster(e) THEN w.monster.currentNodeId ELSE w.units[e].currentNodeId

PointsOf(w, e) ==
    IF IsMonster(e) THEN w.monster.currentMovementPoints ELSE w.units[e].currentMovementPoints

\* A Unit has no specialAbilities; the Monster has those of its configuration.
validateCombatants(w, attacker, defender) ==
    LET isAdjacent == areNodesAdjacent(NodeOf(w, attacker), NodeOf(w, defender))
        hasRangedAttack == IsMonster(attacker) /\ "rangedAttack" \in w.monster.specialAbilities
        attackerFaction == IF IsMonster(attacker) THEN "monster" ELSE "human"
        defenderFaction == IF IsMonster(defender) THEN "monster" ELSE "human"
    IN  IF PointsOf(w, attacker) <= 0 THEN FALSE
        ELSE IF ~isAdjacent /\ ~hasRangedAttack THEN FALSE
        ELSE IF /\ NodeOf(w, attacker) = NodeOf(w, defender)
                /\ ~(IsMonster(attacker) /\ ~IsMonster(defender))
             THEN FALSE
        ELSE attackerFaction # defenderFaction

\* the defense modifier; the attack modifier is 0
calculateTerrainModifiers(w, defender) ==
    LET nodeId == NodeOf(w, defender)
    IN  IF ~getNode(nodeId) THEN 0
        ELSE CASE w.terrain[nodeId] = "rubble" -> 1
               [] w.terrain[nodeId] = "lowBuilding" -> 2
               [] w.terrain[nodeId] = "highBuilding" -> 3
               [] w.terrain[nodeId] = "river" -> -1
               [] OTHER -> 0

\* attacker.strengths ? attacker.strengths.attack : attacker.stats.attack, with
\* the modifiers, which are 0 for the attack: no entity of the model flies
attackStrengthOf(w, attacker) ==
    IF IsMonster(attacker) THEN w.monster.strengths.attack ELSE UnitStats.attack

defenseStrengthOf(w, defender) ==
    (IF IsMonster(defender) THEN w.monster.strengths.defense ELSE UnitStats.defense)
    + calculateTerrainModifiers(w, defender)

\* the ratio of calculateCombatOdds: n for n:1 and -n for 1:n
oddsRatio(attack, defense) ==
    LET attackStrength == Max(1, attack)
        defenseStrength == Max(1, defense)
    IN  IF attackStrength >= defenseStrength
        THEN Min(5, attackStrength \div defenseStrength)
        ELSE Max(-3, -(defenseStrength \div attackStrength))

calculateCombatOdds(w, attacker, defender) ==
    oddsRatio(attackStrengthOf(w, attacker), defenseStrengthOf(w, defender))

\* DataManager.parseResult
parseResult(result) ==
    CASE result = "DE" -> [defender |-> "eliminated", attacker |-> "none"]
      [] result = "DR" -> [defender |-> "retreat", attacker |-> "none"]
      [] result = "DD" -> [defender |-> "damage", attacker |-> "none"]
      [] result = "NE" -> [defender |-> "none", attacker |-> "none"]
      [] result = "AD" -> [defender |-> "none", attacker |-> "damage"]
      [] result = "AR" -> [defender |-> "none", attacker |-> "retreat"]
      [] result = "AE" -> [defender |-> "none", attacker |-> "eliminated"]
      [] result = "EX" -> [defender |-> "eliminated", attacker |-> "eliminated"]
      [] OTHER -> [defender |-> "none", attacker |-> "none"]

\* null, where a combat result is expected
NullResult == [defender |-> "null", attacker |-> "null"]

\* Math.floor(a / b) for a >= 0 and b # 0
FloorDiv(a, b) == IF b > 0 THEN a \div b ELSE 0 - ((a + (0 - b) - 1) \div (0 - b))

\* DataManager.getCombatResult; a division by 0 gives Infinity, which the cap
\* turns into the number of the odds columns
getCombatResult(data, attackerStrength, defenderStrength, dieRoll) ==
    LET tables == data.combatTables
        columns == Len(tables.odds)
        ratio == IF attackerStrength >= defenderStrength
                 THEN IF defenderStrength = 0 THEN columns
                      ELSE Min(FloorDiv(attackerStrength, defenderStrength), columns)
                 ELSE IF attackerStrength = 0 THEN 0 - columns
                      ELSE Max(0 - FloorDiv(defenderStrength, attackerStrength), 0 - columns)
        oddsIndex == FindIndex(tables.odds, ratio)
    IN  IF ~data.isLoaded THEN NullResult
        ELSE IF oddsIndex = 0 THEN NullResult
        ELSE IF dieRoll < 1 \/ dieRoll > 6 THEN NullResult
        ELSE IF dieRoll > Len(tables.results) THEN NullResult
        ELSE IF oddsIndex > Len(tables.results[dieRoll]) THEN NullResult
        ELSE parseResult(tables.results[dieRoll][oddsIndex])

fallbackCombatResolution(odds, dieRoll) ==
    IF odds > 0
    THEN IF dieRoll >= 5 THEN [defender |-> "eliminated", attacker |-> "none"]
         ELSE IF dieRoll >= 3 THEN [defender |-> "retreat", attacker |-> "none"]
         ELSE IF dieRoll >= 2 THEN [defender |-> "none", attacker |-> "none"]
         ELSE [defender |-> "none", attacker |-> "retreat"]
    ELSE IF dieRoll <= 2 THEN [defender |-> "none", attacker |-> "eliminated"]
         ELSE IF dieRoll <= 4 THEN [defender |-> "none", attacker |-> "retreat"]
         ELSE IF dieRoll <= 5 THEN [defender |-> "none", attacker |-> "none"]
         ELSE [defender |-> "retreat", attacker |-> "none"]

\* Monster.onDestroyed emits 'monster-destroyed', which has no listener in the
\* managers, and crushes a node only with the 'greatHeight' ability, which the
\* monster of the model does not have; unit.destroy() and 'unit-destroyed' for a unit.
destroyUnit(w, e) ==
    IF IsMonster(e) THEN w
    ELSE unregisterUnit([w EXCEPT !.units[e].destroyed = TRUE], e)

\* Monster.takeDamage: the defense is reduced, and onDestroyed runs at 0
takeDamage(w, amount) ==
    IF amount <= 0 THEN w
    ELSE [w EXCEPT !.monster.strengths.defense = Max(0, @ - amount)]

\* case 'damage': only a Monster takes it, Math.ceil(strengths.defense * 0.25)
DamageIf(w, result, e) ==
    IF result = "damage" /\ IsMonster(e)
    THEN takeDamage(w, (w.monster.strengths.defense + 3) \div 4)
    ELSE w

\* The adjacent nodes the entity may retreat to; no entity is 'waterOnly'.
RetreatNodes(w, e) ==
    SelectSeq(adjacentNodes[NodeOf(w, e)],
              LAMBDA n : /\ w.terrain[n] \notin {"rubble", "highBuilding", "river"}
                         /\ IF IsMonster(e) THEN Len(getUnitsAtNode(w.gs, n)) = 0
                            ELSE Len(getMonstersAtNode(w.gs, n)) = 0)

\* pick: the draw of Math.random(), which selects one of the retreat nodes
\* unit.moveToNode(retreatNode.id) of the retreating entity
RetreatMove(w, e, retreatNode) ==
    PlayMove(w, e, moveToNode(NodeOf(w, e), PointsOf(w, e),
                              IF IsMonster(e) THEN MonsterInstance ELSE UnitSelf(e),
                              retreatNode))

RetreatTo(w, e, validRetreatNodes, pick) ==
    IF Len(validRetreatNodes) = 0 THEN destroyUnit(w, e)
    ELSE RetreatMove(w, e, validRetreatNodes[((pick - 1) % Len(validRetreatNodes)) + 1])

retreatUnit(w, e, pick) ==
    IF ~getNode(NodeOf(w, e)) THEN w
    ELSE RetreatTo(w, e, RetreatNodes(w, e), pick)

\* 'combat-resolved': the winner is 'attacker', 'defender' or 'draw', so no
\* branch of onCombatResolved awards points.
onCombatResolved(w) == checkVictoryConditions(w)

\* if (result === 'retreat') this.retreatUnit(entity)
RetreatIf(w, result, e, pick) == IF result = "retreat" THEN retreatUnit(w, e, pick) ELSE w

\* The fault claim C14 excludes: a result of no effect costs the entity.
DestroyUnlessRetreat(w, result, e) == IF result # "retreat" THEN destroyUnit(w, e) ELSE w

\* if (result === 'eliminated') this.destroyUnit(entity)
DestroyIf(w, result, e) == IF result = "eliminated" THEN destroyUnit(w, e) ELSE w

\* the attacker has used its movement: attacker.currentMovementPoints = 0
SpendPoints(w, attacker) ==
    IF PointsOf(w, attacker) = 0 THEN w
    ELSE IF IsMonster(attacker) THEN [w EXCEPT !.monster.currentMovementPoints = 0]
    ELSE [w EXCEPT !.units[attacker].currentMovementPoints = 0]

\* in the order of the code: the defender retreats or is damaged, so does the
\* attacker, the defender is destroyed, the attacker is destroyed, the points
\* are spent; destroyUnit does nothing to a Monster, also to one takeDamage
\* reported as destroyed
applyCombatResult(w, attacker, defender, result, pick) ==
    onCombatResolved(
        SpendPoints(
            DestroyIf(
                DestroyIf(
                    DamageIf(
                        RetreatIf(
                            DamageIf(RetreatIf(w, result.defender, defender, pick),
                                     result.defender, defender),
                            result.attacker, attacker, pick),
                        result.attacker, attacker),
                    result.defender, defender),
                result.attacker, attacker),
            attacker))

\* the result of a combat that was not resolved
NoResult == [defender |-> "none", attacker |-> "none"]

\* the tables of the DataManager when they are loaded, else the fallback
resolveCombat(w, attacker, defender, odds, dieRoll) ==
    IF w.data.isLoaded
    THEN getCombatResult(w.data, attackStrengthOf(w, attacker), defenseStrengthOf(w, defender),
                         dieRoll)
    ELSE fallbackCombatResolution(odds, dieRoll)

\* Returns [ok, w, odds, result]: whether the combat was resolved, the world left
\* behind (applyCombatResult throws on a null result and nothing is applied),
\* and the odds and the result it was resolved with.
initiateCombat(w, attacker, defender, dieRoll, pick) ==
    IF ~validateCombatants(w, attacker, defender)
    THEN [ok |-> FALSE, w |-> w, odds |-> 0, result |-> NoResult]
    ELSE LET odds == calculateCombatOdds(w, attacker, defender)
             result == resolveCombat(w, attacker, defender, odds, dieRoll)
         IN  IF result = NullResult
             THEN [ok |-> FALSE, w |-> w, odds |-> odds, result |-> NoResult]
             ELSE [ok |-> TRUE, w |-> applyCombatResult(w, attacker, defender, result, pick),
                   odds |-> odds, result |-> result]

\* GameScene.initiateCombat emits 'combat-initiated' in a combat sub-phase.
sceneInitiateCombat(w, attacker, defender, dieRoll, pick) ==
    IF w.tm.currentSubPhase # "combat"
    THEN [ok |-> FALSE, w |-> w, odds |-> 0, result |-> NoResult]
    ELSE initiateCombat(w, attacker, defender, dieRoll, pick)

\* history: how the last call went when it was this same call with this same
\* die, and a combat that was not resolved otherwise
Previous(c, attacker, defender, dieRoll) ==
    IF c.op = "initiateCombat" /\ c.who = attacker /\ c.arg = defender /\ c.dieRoll = dieRoll
    THEN [ok |-> c.ok, odds |-> c.odds, result |-> c.result]
    ELSE [ok |-> FALSE, odds |-> 0, result |-> NoResult]

\* history of a combat: the call, the die, the strengths the odds were computed
\* from, the odds, the result, and the same call before it
Fought(attacker, defender, dieRoll, r, attack, defense, previous) ==
    [op |-> "initiateCombat", who |-> attacker, arg |-> defender, ok |-> r.ok, spread |-> 0,
     dieRoll |-> dieRoll, odds |-> r.odds, result |-> r.result,
     attack |-> attack, defense |-> defense, previous |-> previous]

\* The draws of Math.random() that select different retreat nodes.
Picks(w, attacker, defender) ==
    LET n == Max(Len(RetreatNodes(w, attacker)), Len(RetreatNodes(w, defender)))
    IN  1..Max(1, n)

Attack ==
    /\ MayIssue("combat")
    /\ \E attacker \in Entities, defender \in Entities, dieRoll \in DieRolls :
           /\ attacker \in gameState.units \cup gameState.monsters
           /\ defender \in gameState.units \cup gameState.monsters
           /\ \E pick \in Picks(World, attacker, defender) :
                  \E r \in {sceneInitiateCombat(World, attacker, defender, dieRoll, pick)} :
                      /\ Commit(r.w)
                      /\ ledger' = Issued
                      /\ lastOp' = Fought(attacker, defender, dieRoll, r,
                                          attackStrengthOf(World, attacker),
                                          defenseStrengthOf(World, defender),
                                          Previous(lastOp, attacker, defender, dieRoll))

(***************************************************************************)
(* The action budget of the TurnManager and the handlers of the events     *)
(* that report a completed action.                                         *)
(***************************************************************************)
\* what consumeAction is called with: the action types and one that is none
ConsumedTypes == ActionTypes \cup {"fire-breathing"}

ConsumeAction ==
    /\ MayIssue("actions")
    /\ \E actionType \in ConsumedTypes :
           /\ Commit([World EXCEPT !.tm = consumeAction(@, actionType)])
           /\ ledger' = Issued
           /\ lastOp' = Called("consumeAction", Undefined, actionType,
                               canPerformAction(turnManager, actionType), 0)

\* 'movement-completed'
MovementCompleted ==
    /\ MayIssue("actions")
    /\ Commit(onMovementCompleted(World))
    /\ ledger' = Issued
    /\ lastOp' = Called("onMovementCompleted", Undefined, Undefined, TRUE, 0)

\* 'combat-completed'
CombatCompleted ==
    /\ MayIssue("actions")
    /\ Commit(onCombatCompleted(World))
    /\ ledger' = Issued
    /\ lastOp' = Called("onCombatCompleted", Undefined, "combat",
                        canPerformAction(turnManager, "combat"), 0)

\* 'destruction-completed'
DestructionCompleted ==
    /\ MayIssue("actions")
    /\ \E successful \in BOOLEAN :
           /\ Commit(onDestructionCompleted(World, successful))
           /\ ledger' = Issued
           /\ lastOp' = Called("onDestructionCompleted", Undefined, successful,
                               successful /\ canPerformAction(turnManager, "destruction"), 0)

\* 'fire-control-completed'
FireControlCompleted ==
    /\ MayIssue("actions")
    /\ Commit(onFireControlCompleted(World))
    /\ ledger' = Issued
    /\ lastOp' = Called("onFireControlCompleted", Undefined, "fire-control",
                        canPerformAction(turnManager, "fire-control"), 0)

(***************************************************************************)
(* Fire: ignition and fire fighting                                        *)
(***************************************************************************)
\* data.stage of a 'fire-started' event, the intensity that is requested; 0
\* stands for an event without stage
Stages == {0, 3, 4}

\* the amount argument of extinguishFire
Amounts == {1, 2}

\* The fault claim C21 excludes: the call leaves the fire as it is.
extinguishFireIgnored(w, nodeId, amount, u) == [ok |-> FALSE, w |-> w]

\* Returns [ok, w].  The fire is a placeholder object without methods.
extinguishFire(w, nodeId, amount, u) ==
    LET fires == getMarkersAtNode(w.gs, nodeId, "fire")
        fire == fires[1]
        unitNode == w.units[u].currentNodeId
        effectiveAmount == amount + (CASE unitType[u] = "firemen" -> 1
                                       [] unitType[u] = "fireboat" -> 2
                                       [] OTHER -> 0)
    IN  IF Len(fires) = 0 THEN [ok |-> FALSE, w |-> w]
        ELSE IF unitNode # 0 /\ (~getNode(unitNode) \/ ~Includes(adjacentNodes[unitNode], nodeId))
             THEN [ok |-> FALSE, w |-> w]
        ELSE IF fire.intensity <= effectiveAmount
             THEN [ok |-> TRUE, w |-> unregisterMarker(w, fire)]
             ELSE [ok |-> FALSE,
                   w |-> [w EXCEPT !.gs = setIntensity(@, fire.id,
                                                       fire.intensity - effectiveAmount)]]

\* 'fire-started'; the handler returns nothing: ok tells whether a fire was placed
FireStarted ==
    /\ MayIssue("fire")
    /\ \E nodeId \in Nodes \cup MissingNodes, stage \in Stages :
           \E w \in {onFireStarted(World, [nodeId |-> nodeId, stage |-> stage])} :
               /\ Commit(w)
               /\ ledger' = Issued
               /\ lastOp' = Called("onFireStarted", Undefined, nodeId,
                                   w.gs.markers # gameState.markers, 0)

\* history of a call of extinguishFire: the call, the amount it was made
\* with, and the fire it found on the node (intensity 0 when it found none)
Doused(u, nodeId, amount, ok, fires) ==
    [op |-> "extinguishFire", who |-> u, arg |-> nodeId, ok |-> ok, spread |-> 0,
     amount |-> amount,
     fire |-> IF Len(fires) = 0 THEN [id |-> 0, intensity |-> 0]
              ELSE [id |-> fires[1].id, intensity |-> fires[1].intensity]]

Extinguish ==
    /\ MayIssue("fire")
    /\ \E u \in UnitIds, nodeId \in Nodes \cup MissingNodes, amount \in Amounts :
           /\ ~units[u].destroyed
           /\ LET r == extinguishFire(World, nodeId, amount, u)
              IN  /\ Commit(r.w)
                  /\ ledger' = Issued
                  /\ lastOp' = Doused(u, nodeId, amount, r.ok,
                                      getMarkersAtNode(gameState, nodeId, "fire"))

(***************************************************************************)
(* Specification of the map queries: any terrain layout, any query.        *)
(***************************************************************************)
QueryTerrains == {"street", "river", "lowBuilding"}

QueryUnits == {NoUnit, MonsterInstance, UnitOfType("monster"), UnitOfType("infantry"),
               UnitOfType("armor"), UnitOfType("helicopter"), UnitOfType("fireboat")}

vars == <<nodes, terrainType, turnManager, gameState, monster, units, timelines, gameOver,
          ledger, lastOp, session, dataManager, dataLoad, query, reachable, foundPath,
          moveResult>>

engineVars == <<turnManager, gameState, monster, units, timelines, gameOver, ledger, lastOp,
                session, dataManager, dataLoad>>

\* a ring of four nodes, the first with the identifier 0
RingNodes ==
    [n \in 0..3 |->
        CASE n = 0 -> NodeRecord(<<1, 3>>, 0, 0)
          [] n = 1 -> NodeRecord(<<0, 2>>, 300, 0)
          [] n = 2 -> NodeRecord(<<1, 3>>, 300, 400)
          [] n = 3 -> NodeRecord(<<2, 0>>, 0, 400)]

\* a line of three nodes
LineNodes ==
    [n \in 1..3 |->
        CASE n = 1 -> NodeRecord(<<2>>, 0, 0)
          [] n = 2 -> NodeRecord(<<1, 3>>, 300, 0)
          [] n = 3 -> NodeRecord(<<2>>, 300, 400)]

QueryGraphs == {ScenarioNodes, RingNodes, LineNodes}

\* the entities that call moveToNode with themselves as the unit
QueryMovers == {MonsterInstance, UnitOfType("infantry"), UnitOfType("armor")}

\* The map is loaded and the managers are constructed; no entity is created.
InitQuery ==
    /\ nodes \in QueryGraphs
    /\ terrainType \in [Nodes -> QueryTerrains]
    /\ turnManager = InitTurnManager
    /\ gameState = NewGameState
    /\ monster = InitMonster
    /\ units = InitUnits
    /\ timelines = <<>>
    /\ gameOver = <<>>
    /\ ledger = NoLedger
    /\ lastOp = Called("create", Undefined, Undefined, TRUE, 0)
    /\ session = "queries"
    /\ dataManager = NoData
    /\ dataLoad = NoLoad
    /\ query = NoQuery
    /\ reachable = <<>>
    /\ foundPath = <<>>
    /\ moveResult = NoMove

\* One query of the map in every behaviour: the functions are pure.
FindReachable ==
    \E s \in Nodes, mp \in 0..MaxBudget, u \in QueryUnits :
        /\ query = NoQuery
        /\ query' = [op |-> "findReachableNodes", start |-> s, target |-> s, budget |-> mp,
                     unit |-> u]
        /\ reachable' = findReachableNodes(s, mp, u)
        /\ UNCHANGED <<nodes, terrainType, engineVars, foundPath, moveResult>>

FindPath ==
    \E s \in Nodes \cup MissingNodes, e \in Nodes \cup MissingNodes, u \in QueryUnits :
        /\ query = NoQuery
        /\ query' = [op |-> "findPath", start |-> s, target |-> e, budget |-> 0, unit |-> u]
        /\ foundPath' = findPath(s, e, u)
        /\ UNCHANGED <<nodes, terrainType, engineVars, reachable, moveResult>>

\* entity.moveToNode(targetNodeId) of an entity on the node s with mp movement points
MoveToNode ==
    \E s \in Nodes, mp \in 0..MaxBudget, u \in QueryMovers, t \in Nodes \cup MissingNodes :
        /\ query = NoQuery
        /\ query' = [op |-> "moveToNode", start |-> s, target |-> t, budget |-> mp, unit |-> u]
        /\ moveResult' = moveToNode(s, mp, u, t)
        /\ UNCHANGED <<nodes, terrainType, engineVars, reachable, foundPath>>

(***************************************************************************)
(* Specification of the load of a map: any node list of the bounded input. *)
(***************************************************************************)
\* the identifiers of the nodes in a node list
LoadIds == 1..3

\* the adjacentNodes arrays of the input: every array of up to two entries over
\* the identifiers and one that names no node, an array of three entries and
\* one of seven
LoadLists ==
    LET ids == LoadIds \cup MissingNodes
    IN  {<<>>} \cup {<<a>> : a \in ids} \cup {<<a, b>> : a \in ids, b \in ids}
             \cup {<<1, 2, 3>>, <<2, 3, 2, 3, 2, 3, 2>>}

\* setupNodes has copied the node list into this.nodes and has not validated it yet
InitLoad ==
    /\ \E ids \in SUBSET LoadIds :
           nodes \in [ids -> {NodeRecord(adj, 0, 0) : adj \in LoadLists}]
    /\ terrainType = [n \in Nodes |-> "default"]
    /\ turnManager = InitTurnManager
    /\ gameState = NewGameState
    /\ monster = InitMonster
    /\ units = InitUnits
    /\ timelines = <<>>
    /\ gameOver = <<>>
    /\ ledger = NoLedger
    /\ lastOp = Called("setupNodes", {}, {}, TRUE, 0)
    /\ session = "load"
    /\ dataManager = NoData
    /\ dataLoad = NoLoad
    /\ query = NoQuery
    /\ reachable = <<>>
    /\ foundPath = <<>>
    /\ moveResult = NoMove

\* history: who holds the nodes whose array grew, arg the nodes warned about
ValidateAdjacencies ==
    /\ lastOp.op = "setupNodes"
    /\ \E ns \in {validateAdjacencies(nodes)} :
           /\ nodes' = ns
           /\ lastOp' = Called("validateAdjacencies",
                               {n \in DOMAIN ns : ns[n] # nodes[n]},
                               adjacencyWarnings(ns), TRUE, 0)
    /\ UNCHANGED <<terrainType, turnManager, gameState, monster, units, timelines, gameOver,
                   ledger, session, dataManager, dataLoad, query, reachable, foundPath,
                   moveResult>>

SpecLoad == InitLoad /\ [][ValidateAdjacencies]_vars

(***************************************************************************)
(* Specification of the combats of a game: the scenario on several         *)
(* terrains, with several configurations of the monster.                   *)
(***************************************************************************)
\* the terrain of node 5, where the infantry starts
CombatGrounds == {"street", "rubble", "highBuilding"}

\* the terrain around node 5: that of the scenario, and one where nobody can
\* retreat to nodes 2, 3 and 4
CombatTerrains ==
    {[ScenarioTerrain EXCEPT ![5] = g] : g \in CombatGrounds}
    \cup {[n \in DOMAIN ScenarioNodes |->
              CASE n = 1 -> "street" [] n = 2 -> "highBuilding" [] n = 3 -> "rubble"
                [] n = 4 -> "river" [] n = 5 -> "street"]}

\* config.attack and config.specialAbilities of the monster
CombatConfigs ==
    {[attack |-> 5, specialAbilities |-> {}], [attack |-> 2, specialAbilities |-> {}],
     [attack |-> 5, specialAbilities |-> {"rangedAttack"}]}

InitCombat ==
    /\ nodes = ScenarioNodes
    /\ terrainType \in CombatTerrains
    /\ turnManager = InitWorld.tm
    /\ gameState = InitWorld.gs
    /\ \E config \in CombatConfigs :
           monster = [InitMonster EXCEPT !.strengths.attack = config.attack,
                                         !.specialAbilities = config.specialAbilities]
    /\ units = InitWorld.units
    /\ timelines = <<>>
    /\ gameOver = <<>>
    /\ ledger = NoLedger
    /\ lastOp = Called("create", Undefined, Undefined, TRUE, 0)
    /\ session = "combat"
    /\ dataManager = NoData
    /\ dataLoad = NoLoad
    /\ query = NoQuery
    /\ reachable = <<>>
    /\ foundPath = <<>>
    /\ moveResult = NoMove

NextCombat == EndTurn \/ EndPhase \/ TimelineComplete \/ Attack

SpecCombat == InitCombat /\ [][NextCombat]_vars

(***************************************************************************)
(* Specification of the fires: a game that starts with fires burning (the  *)
(* scene's startFire was called before the first turn), on a map where a   *)
(* park lies between two burnable nodes, and the monster attempts          *)
(* destructions.                                                           *)
(***************************************************************************)
FireTerrain == [ScenarioTerrain EXCEPT ![4] = "park"]

\* the fires lit before the first turn: <<nodeId, intensity>>, in order
Kindlings == {<<<<2, 1>>>>, <<<<2, 3>>>>, <<<<2, 3>>, <<4, 1>>>>}

RECURSIVE Kindle(_, _, _)
Kindle(w, fires, i) ==
    IF i > Len(fires) THEN w
    ELSE Kindle(createFireMarker(w, fires[i][1], fires[i][2]), fires, i + 1)

InitFire ==
    /\ nodes = ScenarioNodes
    /\ terrainType = FireTerrain
    /\ \E fires \in Kindlings :
           \E w \in {Kindle([InitWorld EXCEPT !.terrain = FireTerrain], fires, 1)} :
               /\ turnManager = w.tm
               /\ gameState = w.gs
               /\ monster = w.monster
               /\ units = w.units
    /\ timelines = <<>>
    /\ gameOver = <<>>
    /\ ledger = NoLedger
    /\ lastOp = Called("create", Undefined, Undefined, TRUE, 0)
    /\ session = "destruction"
    /\ dataManager = NoData
    /\ dataLoad = NoLoad
    /\ query = NoQuery
    /\ reachable = <<>>
    /\ foundPath = <<>>
    /\ moveResult = NoMove

NextFire == EndTurn \/ EndPhase \/ AttemptDestruction

SpecFire == InitFire /\ [][NextFire]_vars

(***************************************************************************)
(* Specification of the combats with the combat tables loaded.  The file   *)
(* of the tables is an input of the program: the model reads one table     *)
(* with every result DataManager.parseResult knows, and a monster a few    *)
(* damages away from defense 0.                                            *)
(***************************************************************************)
DamageTables ==
    [odds |-> <<-2, -1, 1, 2>>,
     results |-> << <<"AE", "AR", "NE", "DD">>,
                    <<"AR", "AR", "DD", "DD">>,
                    <<"AR", "NE", "DD", "DR">>,
                    <<"NE", "DD", "DR", "DE">>,
                    <<"NE", "DD", "DE", "DE">>,
                    <<"DD", "DR", "DE", "EX">> >>]

\* strengths.defense of the scenario's monster
DamageDefenses == {1, 2}

InitDamage ==
    /\ nodes = ScenarioNodes
    /\ terrainType = ScenarioTerrain
    /\ turnManager = InitWorld.tm
    /\ gameState = InitWorld.gs
    /\ \E defense \in DamageDefenses :
           monster = [InitMonster EXCEPT !.strengths.defense = defense]
    /\ units = InitWorld.units
    /\ timelines = <<>>
    /\ gameOver = <<>>
    /\ ledger = NoLedger
    /\ lastOp = Called("create", Undefined, Undefined, TRUE, 0)
    /\ session = "combat"
    /\ dataManager = [isLoaded |-> TRUE, combatTables |-> DamageTables]
    /\ dataLoad = NoLoad
    /\ query = NoQuery
    /\ reachable = <<>>
    /\ foundPath = <<>>
    /\ moveResult = NoMove

NextDamage == EndTurn \/ EndPhase \/ TimelineComplete \/ Attack

SpecDamage == InitDamage /\ [][NextDamage]_vars

NextQuery == FindReachable \/ FindPath \/ MoveToNode

SpecQuery == InitQuery /\ [][NextQuery]_vars

(***************************************************************************)
(* Specification of the game.                                              *)
(***************************************************************************)
Next ==
    \/ EndTurn
    \/ EndPhase
    \/ MoveUnit
    \/ MoveMonster
    \/ TimelineComplete
    \/ AttemptDestruction
    \/ Attack
    \/ ConsumeAction
    \/ MovementCompleted
    \/ CombatCompleted
    \/ DestructionCompleted
    \/ FireControlCompleted
    \/ FireStarted
    \/ Extinguish

Spec == Init /\ [][Next]_vars

(***************************************************************************)
(* Vocabulary of the claims.                                               *)
(***************************************************************************)
\* the engine state: positions, budgets, counters, markers, terrain, points
worldVars == <<terrainType, turnManager, gameState, monster, units, timelines, gameOver>>

MoveOps == {"Unit.moveToNode", "Monster.moveToNode"}

EndOps == {"endCurrentTurn", "endCurrentSubPhase"}

\* the side an entity plays for
SideOf(e) == IF e = MonsterId THEN "monster" ELSE "human"

\* The player-turn and the sub-phase in which the rules allow the call c.
LegalAt(tm, c) ==
    CASE c.op \in MoveOps ->
             tm.currentSubPhase = "movement" /\ tm.currentPhase = SideOf(c.who)
      [] c.op = "initiateCombat" ->
             tm.currentSubPhase = "combat" /\ tm.currentPhase = SideOf(c.who)
      [] c.op = "Monster.attemptDestruction" ->
             tm.currentSubPhase = "destruction" /\ tm.currentPhase = "monster"
      [] c.op = "onFireStarted" ->
             tm.currentSubPhase = "destruction" /\ tm.currentPhase = "monster"
      [] c.op = "extinguishFire" ->
             tm.currentSubPhase = "fire-control" /\ tm.currentPhase = "human"
      [] OTHER -> TRUE

\* The six sub-phases of a game turn, in the order of play.
PhaseCycle ==
    << <<"monster", "movement">>, <<"monster", "combat">>, <<"monster", "destruction">>,
       <<"human", "movement">>, <<"human", "combat">>, <<"human", "fire-control">> >>

Position(tm) == <<tm.currentPhase, tm.currentSubPhase>>

\* the position after p in the cycle
Following(p) ==
    LET i == FindIndex(PhaseCycle, p) IN PhaseCycle[IF i = Len(PhaseCycle) THEN 1 ELSE i + 1]

\* The call c, made in the state before this step, is rejected.
Rejected(c) ==
    \/ c.op \in MoveOps \cup {"initiateCombat", "Monster.attemptDestruction", "consumeAction"}
       /\ ~c.ok
    \/ /\ c.op = "extinguishFire"
       /\ \/ ~hasMarker(gameState, c.arg, "fire")
          \/ ~areNodesAdjacent(units[c.who].currentNodeId, c.arg)

\* This step ends the human player-turn.
HumanTurnEnds == turnManager.currentPhase = "human" /\ turnManager'.currentPhase = "monster"

(***************************************************************************)
(* C1: in every reachable state every registered unit or monster is listed *)
(* in the contents of a node if and only if that node is its current node, *)
(* so each entity is listed at exactly one node.                           *)
(***************************************************************************)
C1_OccupancyAgrees ==
    \A n \in Nodes :
        /\ \A u \in gameState.units :
               Includes(gameState.nodeContents[n].units, u) <=> units[u].currentNodeId = n
        /\ \A m \in gameState.monsters :
               Includes(gameState.nodeContents[n].monsters, m) <=> monster.currentNodeId = n

(***************************************************************************)
(* C2: a move, an attack, a destruction attempt, a fire ignition or an     *)
(* extinguish that is attempted outside its legal sub-phase, or by an      *)
(* entity of the side whose turn it is not, is rejected and changes        *)
(* nothing.                                                                *)
(***************************************************************************)
C2_PhaseGated ==
    [][~LegalAt(turnManager, lastOp') => (~lastOp'.ok /\ UNCHANGED worldVars)]_vars

(***************************************************************************)
(* C3: at most three destruction attempts are accepted within one monster  *)
(* turn, failed ones included, and at the start of every later monster     *)
(* turn the monster has three attempts again.                              *)
(***************************************************************************)
C3_AttemptAllowance ==
    /\ ledger.attempts <= 3
    /\ (lastOp.op \in EndOps /\ Position(turnManager) = PhaseCycle[1])
           => monster.remainingDestructionAttempts = 3

(***************************************************************************)
(* C4: the destruction points applied by the attempts accepted within one  *)
(* monster turn sum to at most the monster's destruction strength.         *)
(***************************************************************************)
C4_PointsWithinPool == ledger.points <= MonsterStrengths.buildingDestruction

(***************************************************************************)
(* C5: the turn counter grows by exactly one in the step that ends the     *)
(* human player-turn, be it by end-turn or by end-phase in the last        *)
(* sub-phase, and no other step changes it; the game state's counter       *)
(* follows.                                                                *)
(***************************************************************************)
C5_TurnCounter ==
    [][/\ turnManager'.currentTurn =
              turnManager.currentTurn + (IF HumanTurnEnds THEN 1 ELSE 0)
       /\ gameState'.currentTurn = turnManager'.currentTurn]_vars

C5_Witness ==
    /\ lastOp.op = "endCurrentSubPhase"
    /\ turnManager.currentTurn = 2
    /\ gameState.currentTurn = 2

(***************************************************************************)
(* C6: the game starts in the monster's movement sub-phase; every          *)
(* end-phase leads to the next position of the cycle monster movement,     *)
(* combat, destruction, human movement, combat, fire-control; and the      *)
(* active sub-phase is always one of the side whose turn it is.            *)
(***************************************************************************)
C6_PhaseOrder ==
    /\ Position(turnManager) = PhaseCycle[1]
    /\ [](Position(turnManager) \in SeqToSet(PhaseCycle))
    /\ [][lastOp'.op = "endCurrentSubPhase"
              => Position(turnManager') = Following(Position(turnManager))]_vars

C6_Witness ==
    /\ lastOp.op = "endCurrentSubPhase"
    /\ Position(turnManager) = PhaseCycle[Len(PhaseCycle)]

(***************************************************************************)
(* C7: the step that ends the human player-turn runs the fire spread       *)
(* exactly once, no other step runs it, and with no fire marker on the map *)
(* the fire spread changes nothing.                                        *)
(***************************************************************************)
C7_FirePhase ==
    [][/\ lastOp'.spread = (IF HumanTurnEnds THEN 1 ELSE 0)
       /\ (HumanTurnEnds /\ FireIds(gameState) = {})
              => \A draws \in SpreadDraws(World) :
                     spreadFires(World, draws) = [World EXCEPT !.spread = 1]]_vars

C7_Witness ==
    /\ lastOp.op \in EndOps
    /\ lastOp.spread = 1
    /\ Cardinality(FireIds(gameState)) >= 2

C9_BudgetNeverNegative ==
    /\ monster.currentMovementPoints >= 0
    /\ \A u \in UnitIds : units[u].currentMovementPoints >= 0

(***************************************************************************)
(* C10: for every start node and every entity kind, reachability computed  *)
(* with a movement budget of zero returns exactly one entry, the start     *)
(* node at cost zero.                                                      *)
(***************************************************************************)
C10_ZeroBudgetOnlyStart ==
    (query.op = "findReachableNodes" /\ query.budget = 0)
        => reachable = <<ReachEntry(query.start, 0, "none")>>

\* the movement points a path costs, its fording steps not counted
RECURSIVE PaidCost(_, _, _)
PaidCost(path, i, unit) ==
    IF i > Len(path) - 1 THEN 0
    ELSE LET cost == calculateMovementCost(path[i], path[i + 1], unit)
         IN  (IF cost = Infinity THEN 0 ELSE cost) + PaidCost(path, i + 1, unit)

(***************************************************************************)
(* C11: every path a move is played along, unless the move is a forced     *)
(* entry or a fording that spends all points, costs no more than the       *)
(* movement budget of the move, its fording steps not counted.             *)
(***************************************************************************)
C11_PathWithinBudget ==
    (query.op = "moveToNode" /\ moveResult.ok /\ moveResult.specialMovement = "none")
        => PaidCost(moveResult.path, 1, query.unit) <= query.budget

(***************************************************************************)
(* C12: every non-empty path findPath(start, end) returns starts at start, *)
(* ends at end and steps from node to adjacent node, on every graph and    *)
(* for every node identifier, 0 included.                                  *)
(***************************************************************************)
C12_PathConnects ==
    (query.op = "findPath" /\ foundPath # <<>>)
        => /\ foundPath[1] = query.start
           /\ foundPath[Len(foundPath)] = query.target
           /\ \A i \in 1..(Len(foundPath) - 1) :
                  Includes(adjacentNodes[foundPath[i]], foundPath[i + 1])

\* B is in A's neighbour list if and only if A is in B's, for all nodes A and B
Symmetric(ns) ==
    \A a \in DOMAIN ns, b \in DOMAIN ns :
        Includes(ns[a].adjacentNodes, b) <=> Includes(ns[b].adjacentNodes, a)

\* the load succeeded: every node of the list is in the table with the
\* neighbours it was read with, in their order, at the head of its array
Loaded(before, after) ==
    /\ DOMAIN after = DOMAIN before
    /\ \A n \in DOMAIN before :
           /\ Len(after[n].adjacentNodes) >= Len(before[n].adjacentNodes)
           /\ SubSeq(after[n].adjacentNodes, 1, Len(before[n].adjacentNodes))
                  = before[n].adjacentNodes

Validated == lastOp.op = "validateAdjacencies"

(***************************************************************************)
(* C13, as the code has it: after the validation of any node list the      *)
(* neighbour relation on the nodes is symmetric and the load has           *)
(* succeeded; a node with 1 or 2 or with more than 6 neighbours is warned  *)
(* about and a node without neighbours is not.                             *)
(***************************************************************************)
C13_SymmetricAfterLoad ==
    /\ [](Validated => Symmetric(nodes))
    /\ [][lastOp'.op = "validateAdjacencies"
            => /\ Loaded(nodes, nodes')
               /\ lastOp'.arg = {n \in DOMAIN nodes' :
                                    Len(nodes'[n].adjacentNodes) \in {1, 2}
                                    \/ Len(nodes'[n].adjacentNodes) > 6}]_vars

\* a list with a one-directional adjacency was repaired, a node with seven
\* neighbours was warned about and a node without neighbours was not
C13_Witness ==
    /\ Validated
    /\ lastOp.who # {}
    /\ \E n \in lastOp.arg : Len(nodes[n].adjacentNodes) > 6
    /\ \E n \in Nodes \ lastOp.arg : Len(nodes[n].adjacentNodes) = 0

(***************************************************************************)
(* C13, as stated: after the validation the neighbour relation is          *)
(* symmetric, and every node whose neighbour count is outside 3..6 is      *)
(* warned about.                                                           *)
(***************************************************************************)
C13_EveryCountOutsideRangeWarned ==
    Validated => /\ Symmetric(nodes)
                 /\ \A n \in Nodes : Len(nodes[n].adjacentNodes) \notin 3..6
                                        => n \in lastOp.arg

\* The combat c was resolved at odds 1:1 with a die whose result is no effect.
NoEffect(c) == c.ok /\ c.odds = 1 /\ c.result = NoResult

\* the strengths and the counts of both sides: the strengths of the monster,
\* the registry and the units that are destroyed
Forces == <<monster.strengths, gameState.units, gameState.monsters, gameState.nodeContents,
            [u \in UnitIds |-> units[u].destroyed]>>

\* the attacker's budget aside, which the attack consumes
Untouched(m, us, m2, us2) ==
    /\ [m EXCEPT !.currentMovementPoints = 0] = [m2 EXCEPT !.currentMovementPoints = 0]
    /\ \A u \in UnitIds :
           [us[u] EXCEPT !.currentMovementPoints = 0] = [us2[u] EXCEPT !.currentMovementPoints = 0]

(***************************************************************************)
(* C14: an attack resolved at odds 1:1 with a die whose result is no       *)
(* effect leaves the strengths and the counts of both sides as they were   *)
(* (and everything else but the budget the attack consumes), and the same  *)
(* call with the same die issued again leaves the state as the first call  *)
(* left it.                                                                *)
(***************************************************************************)
C14_NoEffectIdempotent ==
    [][lastOp'.op = "initiateCombat"
       => /\ NoEffect(lastOp')
             => /\ Forces' = Forces
                /\ Untouched(monster, units, monster', units')
                /\ <<terrainType, turnManager, gameState, timelines>>'
                      = <<terrainType, turnManager, gameState, timelines>>
          /\ NoEffect(lastOp'.previous) => worldVars' = worldVars]_vars

\* the attacker and the defender are of equal strength, the result of the die
\* was no effect, and the same attack has been issued a second time
C14_Witness ==
    /\ lastOp.op = "initiateCombat"
    /\ NoEffect(lastOp.previous)
    /\ lastOp.attack = lastOp.defense
    /\ gameState.units = UnitIds

\* The bucket the odds of attack against defense fall in, n for n:1 and -n for
\* 1:n, rounded in the defender's favour and kept within 1:5 and 5:1.
Bucket(attack, defense) ==
    IF attack >= defense THEN Min(5, attack \div defense)
    ELSE -Min(5, (defense + attack - 1) \div attack)

(***************************************************************************)
(* C15: every accepted attack is resolved in the bucket of attacker        *)
(* strength over defender strength rounded in the defender's favour and    *)
(* clamped to 1:5 through 5:1: 5 against 2 in the bucket 2:1, 2 against 3  *)
(* in the bucket 1:2.                                                      *)
(***************************************************************************)
C15_OddsBucket ==
    (lastOp.op = "initiateCombat" /\ lastOp.ok)
        => lastOp.odds = Bucket(lastOp.attack, lastOp.defense)

\* the movement budget of the entity e, of the monster m and the units us
Budget(m, us, e) ==
    IF e = MonsterId THEN m.currentMovementPoints ELSE us[e].currentMovementPoints

\* This step starts a player-turn of the owner of e.
OwnerTurnStarts(e) ==
    turnManager'.currentPhase = SideOf(e)
    /\ (turnManager.currentPhase # SideOf(e)
        \/ turnManager'.currentTurn # turnManager.currentTurn)

(***************************************************************************)
(* C16: an accepted attack leaves the attacker with a movement budget of   *)
(* exactly zero, whatever its outcome, and the step after the attack keeps *)
(* it at zero unless it starts a new turn of the attacker's owner.         *)
(***************************************************************************)
C16_AttackSpendsBudget ==
    [][/\ (lastOp'.op = "initiateCombat" /\ lastOp'.ok)
            => Budget(monster', units', lastOp'.who) = 0
       /\ (lastOp.op = "initiateCombat" /\ lastOp.ok /\ ~OwnerTurnStarts(lastOp.who))
            => Budget(monster', units', lastOp.who) = 0]_vars

\* the nodes on the straight line from node a to node b, strictly between them
Between(a, b) ==
    {n \in Nodes \ {a, b} :
        /\ (nodeX[b] - nodeX[a]) * (nodeY[n] - nodeY[a])
              = (nodeY[b] - nodeY[a]) * (nodeX[n] - nodeX[a])
        /\ Min(nodeX[a], nodeX[b]) <= nodeX[n] /\ nodeX[n] <= Max(nodeX[a], nodeX[b])
        /\ Min(nodeY[a], nodeY[b]) <= nodeY[n] /\ nodeY[n] <= Max(nodeY[a], nodeY[b])}

\* no building stands on the line from a to b
LineOfSight(a, b) ==
    \A n \in Between(a, b) : terrainType[n] \notin {"lowBuilding", "highBuilding"}

\* b is at most three boxes from a, the range of the rulebook's ranged attack
WithinRange(a, b) ==
    \E x \in Nodes, y \in Nodes :
        /\ a = x \/ areNodesAdjacent(a, x)
        /\ x = y \/ areNodesAdjacent(x, y)
        /\ y = b \/ areNodesAdjacent(y, b)

\* the entity e has a ranged capability
Ranged(e) == e = MonsterId /\ "rangedAttack" \in monster.specialAbilities

(***************************************************************************)
(* C17: an accepted attack is one between adjacent nodes, or one of an     *)
(* attacker with a ranged capability on a target within its range and with *)
(* no building on the line of sight; every other attack is rejected.       *)
(***************************************************************************)
C17_AttackNeedsReach ==
    [][(lastOp'.op = "initiateCombat" /\ lastOp'.ok)
       => \/ areNodesAdjacent(NodeOf(World, lastOp'.who), NodeOf(World, lastOp'.arg))
          \/ /\ Ranged(lastOp'.who)
             /\ WithinRange(NodeOf(World, lastOp'.who), NodeOf(World, lastOp'.arg))
             /\ LineOfSight(NodeOf(World, lastOp'.who), NodeOf(World, lastOp'.arg))]_vars

\* the kind of the entity e for the terrain rules
KindOf(e) == IF e = MonsterId THEN "monster" ELSE unitType[e]

\* the entities in play that stand on node n
StandingOn(n) ==
    {e \in gameState.monsters : monster.currentNodeId = n}
    \cup {u \in gameState.units : units[u].currentNodeId = n}

\* rulebook 5.21: firemen, helicopter and populace units do not count
Stacked(n) ==
    {u \in StandingOn(n) \ {MonsterId} : unitType[u] \notin {"firemen", "helicopter", "populace"}}

\* the entity e may be retreated from where it stands to node n: one monster
\* or two units that count for the limit in a box
Eligible(e, n) ==
    /\ areNodesAdjacent(NodeOf(World, e), n)
    /\ isPassable(terrainType[n], KindOf(e))
    /\ \A o \in StandingOn(n) : SideOf(o) = SideOf(e)
    /\ Cardinality(Stacked(n) \cup ({e} \ {MonsterId})) <= 2

(***************************************************************************)
(* C18: the destination of every move that a forced retreat starts is a    *)
(* neighbour of the node the entity retreats from, passable for the kind   *)
(* of the entity, free of entities of the opposing faction and within the  *)
(* stacking limit.                                                         *)
(***************************************************************************)
C18_RetreatDestination ==
    [][lastOp'.op = "initiateCombat"
       => \A i \in (Len(timelines) + 1)..Len(timelines') :
              Eligible(timelines'[i].entity, timelines'[i].to)]_vars

\* The attack of this step forces the entity e to retreat and the code finds
\* no neighbour it lets e retreat to.
Cornered(e) ==
    /\ lastOp'.op = "initiateCombat" /\ lastOp'.ok
    /\ \/ e = lastOp'.who /\ lastOp'.result.attacker = "retreat"
       \/ e = lastOp'.arg /\ lastOp'.result.defender = "retreat"
    /\ Len(RetreatNodes(World, e)) = 0

(***************************************************************************)
(* C19: an entity forced to retreat that has no eligible neighbour is, if  *)
(* it is a human unit, eliminated and removed from the registry, and if it *)
(* is the monster, loses exactly one defense point, stays on its node and  *)
(* remains in play.                                                        *)
(***************************************************************************)
C19_CorneredRetreat ==
    [][/\ \A u \in UnitIds :
              Cornered(u) => units'[u].destroyed /\ u \notin gameState'.units
       /\ Cornered(MonsterId)
              => /\ monster'.strengths.defense = monster.strengths.defense - 1
                 /\ monster'.currentNodeId = monster.currentNodeId
                 /\ MonsterId \in gameState'.monsters
                 /\ Len(timelines') = Len(timelines)]_vars

(***************************************************************************)
(* C20: in every reachable state every fire marker has an intensity of 1,  *)
(* 2 or 3, whatever intensities and extinguish amounts were requested.     *)
(***************************************************************************)
C20_IntensityInRange ==
    \A i \in 1..Len(gameState.markers) :
        gameState.markers[i].type = "fire" => gameState.markers[i].intensity \in {1, 2, 3}

\* what a call of extinguishFire by the unit u with the amount a removes: the
\* manager adds one level for firemen and two for a fireboat
Removed(u, a) ==
    a + (CASE unitType[u] = "firemen" -> 1 [] unitType[u] = "fireboat" -> 2 [] OTHER -> 0)

\* The marker of the fire f is gone from the registry and from the node n.
Cleared(gs, f, n) ==
    /\ f.id \notin MarkerIds(gs)
    /\ ~Includes(gs.nodeContents[n].markers, f.id)

\* The marker of the fire f is kept on the node n, lowered by the amount a.
Lowered(gs, f, n, a) ==
    /\ f.id \in MarkerIds(gs)
    /\ Includes(gs.nodeContents[n].markers, f.id)
    /\ MarkerById(gs, f.id).intensity = f.intensity - a

\* The step is a call of extinguishFire that is not rejected, and it removes
\* the amount a from the fire the call found.
Extinguishes(a) ==
    IF a >= lastOp'.fire.intensity
    THEN Cleared(gameState', lastOp'.fire, lastOp'.arg)
    ELSE Lowered(gameState', lastOp'.fire, lastOp'.arg, a)

(***************************************************************************)
(* C21, as the code has it: a call of extinguishFire by a unit next to a   *)
(* burning node removes the amount of the call plus the bonus of the       *)
(* unit's type; when that is at least the intensity of the fire the marker *)
(* leaves the registry and the contents of its node, otherwise the marker  *)
(* stays and its intensity drops by exactly that much.                     *)
(***************************************************************************)
C21_ExtinguishByEffectiveAmount ==
    [][(lastOp'.op = "extinguishFire" /\ ~Rejected(lastOp'))
       => Extinguishes(Removed(lastOp'.who, lastOp'.amount))]_vars

\* firemen have lowered a fire by the amount of the call and their bonus, and
\* the marker is still on its node
C21_Witness ==
    /\ lastOp.op = "extinguishFire"
    /\ unitType[lastOp.who] = "firemen"
    /\ lastOp.fire.intensity > lastOp.amount + 1
    /\ Lowered(gameState, lastOp.fire, lastOp.arg, lastOp.amount + 1)

(***************************************************************************)
(* C21, as stated: a call of extinguishFire with an amount of at least the *)
(* intensity of the fire removes the marker from the registry and from the *)
(* contents of its node, and a call with a smaller amount keeps the marker *)
(* and lowers its intensity by exactly the amount of the call.             *)
(***************************************************************************)
C21_ExtinguishByAmount ==
    [][(lastOp'.op = "extinguishFire" /\ ~Rejected(lastOp'))
       => Extinguishes(lastOp'.amount)]_vars

(***************************************************************************)
(* Claim C22                                                               *)
(***************************************************************************)
\* the fire markers the game registers for the node n
FiresAt(gs, n) ==
    {i \in 1..Len(gs.markers) : gs.markers[i].type = "fire" /\ gs.markers[i].nodeId = n}

\* C22: a node holds at most one fire marker, in the register of the markers
\* and in the contents of the node, whether it was ignited twice, reached by
\* the spread from several burning neighbours, or ignited while it burned.
C22_OneFirePerNode ==
    \A n \in Nodes :
        /\ Cardinality(FiresAt(gameState, n)) <= 1
        /\ Len(getMarkersAtNode(gameState, n, "fire")) <= 1

\* A burning node was ignited once more and holds its one fire.
C22_Witness ==
    /\ lastOp.op = "onFireStarted"
    /\ lastOp.arg \in Nodes
    /\ ~lastOp.ok
    /\ Cardinality(FiresAt(gameState, lastOp.arg)) = 1

\* The fires of two burning neighbours spread and the node between them holds one fire.
C22_SpreadWitness ==
    /\ lastOp.spread > 0
    /\ \A n \in {2, 3, 4} : Cardinality(FiresAt(gameState, n)) = 1

(***************************************************************************)
(* Claim C23                                                               *)
(***************************************************************************)
\* the nodes that hold a fire marker
Burning(gs) == {n \in Nodes : FiresAt(gs, n) # {}}

\* C23: every fire marker lies on a low building, a high building or a park,
\* never on rubble, a street or a river, also after a burning node was turned
\* to rubble by a destruction attempt or by the fire itself.
C23_FireOnBurnableTerrain ==
    \A n \in Burning(gameState) : terrainType[n] \in validTerrains

\* The fire itself turned its building to rubble, and took its marker away.
C23_BurntDown ==
    /\ lastOp.spread > 0
    /\ terrainType[2] = "rubble"
    /\ 2 \notin Burning(gameState)

(***************************************************************************)
(* Claim C24                                                               *)
(***************************************************************************)
HumanWon(over) == over # <<>> /\ over[1].winner = "human"

\* C24: the step in which the monster's defense strength reaches zero ends
\* the game with the human side as winner.
C24_DefenseZeroEndsGame ==
    [][(monster.strengths.defense > 0 /\ monster'.strengths.defense = 0)
         => HumanWon(gameOver')]_vars

\* The monster fights on with defense strength zero.
C24_FightsOnAtZero ==
    /\ monster.strengths.defense = 0
    /\ lastOp.op = "initiateCombat"
    /\ lastOp.who = MonsterId
    /\ lastOp.ok

(***************************************************************************)
(* Claim C25                                                               *)
(***************************************************************************)
\* the winner the totals of the victory points call for
Deserving(points) ==
    IF points.monster > points.human THEN "monster"
    ELSE IF points.human > points.monster THEN "human"
    ELSE "draw"

\* C25: a game that ends because the turn count exceeds the maximum declares
\* the side with the strictly higher total of victory points the winner, and
\* a draw when the totals are equal.
C25_TurnLimitWinner ==
    \A i \in 1..Len(gameOver) :
        gameOver[i].condition = "max-turns-reached"
            => gameOver[i].winner = Deserving(gameState.victoryPoints)

(***************************************************************************)
(* Claim C26                                                               *)
(***************************************************************************)
\* the human units that can attack: firemen and fireboats only fight fires
Capable(gs) == {u \in gs.units : unitFaction[u] = "human" /\ unitType[u] \notin {"firemen", "fireboat"}}

MonsterWon(over) == over # <<>> /\ over[1].winner = "monster"

\* C26: the step that eliminates the last human unit that can attack ends the
\* game with the monster as winner, also when human units that cannot attack
\* remain on the map.
C26_LastCapableUnitEndsGame ==
    [][(Capable(gameState) # {} /\ Capable(gameState') = {}) => MonsterWon(gameOver')]_vars

\* The infantry is eliminated, the firemen remain and the game goes on.
C26_FiremenRemain ==
    /\ Capable(gameState) = {}
    /\ gameState.units = {"u2"}
    /\ gameOver = <<>>

(***************************************************************************)
(* Claim C27                                                               *)
(***************************************************************************)
\* the victory points of a destroyed terrain
Worth(terrain) ==
    CASE terrain = "lowBuilding" -> 3
      [] terrain = "highBuilding" -> 5
      [] terrain = "bridge" -> 5
      [] OTHER -> 0

\* the total of the monster that checkVictoryConditions compares with the goal
Total(gs) == gs.victoryPoints.monster

Attempted(c) == c.op = "Monster.attemptDestruction" /\ c.ok

\* C27: an accepted destruction attempt either succeeds, the target becomes
\* rubble and the monster's total read by the check of the terminal
\* conditions grows by the worth of the terrain destroyed, or it fails, and
\* neither a terrain nor the total changes.
C27_DestructionScores ==
    [][Attempted(lastOp')
         => \/ /\ terrainType' = [terrainType EXCEPT ![lastOp'.arg] = "rubble"]
               /\ Total(gameState') = Total(gameState) + Worth(terrainType[lastOp'.arg])
            \/ /\ terrainType' = terrainType
               /\ Total(gameState') = Total(gameState)]_vars

\* A building was destroyed, the Monster object holds its points and the total
\* of the GameState is 0.
C27_PointsOnMonsterOnly ==
    /\ Attempted(lastOp)
    /\ terrainType[lastOp.arg] = "rubble"
    /\ monster.victoryPoints > 0
    /\ Total(gameState) = 0

(***************************************************************************)
(* Claim C28                                                               *)
(***************************************************************************)
\* the full movement allowance of the entity e
Allowance(e) == IF e = MonsterId THEN monster.strengths.movement ELSE UnitStats.movementPoints

\* the entities in play
InPlay(gs) == gs.units \cup gs.monsters

\* This step starts a player-turn.
TurnStarts == turnManager'.currentPhase # turnManager.currentPhase

\* C28: the step that starts a player-turn leaves every entity of the side
\* whose turn starts with its full movement allowance and does not change
\* the movement budget of any entity of the other side.
C28_TurnStartResetsOwnSide ==
    [][TurnStarts
         => \A e \in InPlay(gameState') :
                IF SideOf(e) = turnManager'.currentPhase
                THEN Budget(monster', units', e) = Allowance(e)
                ELSE Budget(monster', units', e) = Budget(monster, units, e)]_vars

\* The second turn of the monster has started: the monster, which moved in
\* its first turn, has its full allowance, and a unit that moved has not.
C28_Witness ==
    /\ lastOp.op = "endCurrentTurn"
    /\ turnManager.currentPhase = "monster"
    /\ turnManager.currentTurn = 2
    /\ monster.currentNodeId # monsterStartNode
    /\ monster.currentMovementPoints = Allowance(MonsterId)
    /\ \E u \in gameState.units : units[u].currentMovementPoints < Allowance(u)

(***************************************************************************)
(* Claim C29                                                               *)
(***************************************************************************)
\* Some step into the node n costs the unit no more than the budget.
CanEnter(n, budget, unit) ==
    \E m \in Nodes :
        LET cost == calculateMovementCost(m, n, unit)
        IN  cost >= 0 /\ cost <= budget

\* C29: the forced entry is for human units only: neither the nodes
\* findReachableNodes returns for the monster nor the node a move of the
\* monster is played to cost more to enter than the budget of the monster.
C29_MonsterNeverForced ==
    /\ (query.op = "findReachableNodes" /\ query.unit = MonsterInstance)
           => \A i \in 1..Len(reachable) :
                  reachable[i].id # query.start
                      => CanEnter(reachable[i].id, query.budget, query.unit)
    /\ (query.op = "moveToNode" /\ query.unit = MonsterInstance /\ moveResult.ok
            /\ moveResult.to # query.start)
           => CanEnter(moveResult.to, query.budget, query.unit)

\* The rule is applied to a human unit: an armor unit is played into a node
\* it cannot pay for.
C29_HumanForced ==
    /\ query.op = "moveToNode"
    /\ query.unit = UnitOfType("armor")
    /\ moveResult.ok
    /\ moveResult.specialMovement = "allPointsMove"
    /\ ~CanEnter(moveResult.to, query.budget, query.unit)

(***************************************************************************)
(* Claim C30                                                               *)
(***************************************************************************)
\* The path enters or leaves a river.
Fords(path) ==
    \E i \in 1..(Len(path) - 1) :
        (terrainType[path[i]] = "river") # (terrainType[path[i + 1]] = "river")

\* the move the unit u plays when it is sent to the node target in this state
Sent(u, target) == unitMoveToNode(World, u, target)

\* This step is an accepted moveToNode call of an infantry unit.
InfantryMoves ==
    lastOp'.op = "Unit.moveToNode" /\ lastOp'.ok /\ unitType[lastOp'.who] = "infantry"

\* C30: a move of an infantry unit that enters or leaves a river is one step
\* long, spends the whole movement budget of the unit, and is played only
\* while the unit holds the full budget of its turn start.
C30_FordingIsWholeTurn ==
    [][(InfantryMoves /\ Fords(Sent(lastOp'.who, lastOp'.arg).path))
         => /\ Len(Sent(lastOp'.who, lastOp'.arg).path) = 2
            /\ Sent(lastOp'.who, lastOp'.arg).totalCost
                   = units[lastOp'.who].currentMovementPoints
            /\ units[lastOp'.who].currentMovementPoints = UnitStats.movementPoints]_vars

\* The infantry stands on the river with no movement point left: it has forded.
C30_Forded ==
    /\ lastOp.op = "timeline.complete"
    /\ lastOp.who = "u1"
    /\ terrainType[units["u1"].currentNodeId] = "river"
    /\ units["u1"].currentMovementPoints = 0

(***************************************************************************)
(* Claim C31                                                               *)
(***************************************************************************)
\* the unit types of the scenarios (assets/data/scenarios.json) and of the
\* Unit class, and the type 'monster'
ScenarioKinds ==
    {"monster", "infantry", "police", "tank", "armor", "artillery", "helicopter",
     "populace", "firemen", "fireboat"}

\* C31: the movement cost of a step into a low or a high building is -1 for
\* the monster, armor and artillery, and the cost of a step into a river is
\* -1 for every kind but monster, helicopter and fireboat, the fording of the
\* infantry aside.
C31_ImpassableTerrain ==
    \A m \in Nodes, n \in Nodes, kind \in ScenarioKinds :
        Includes(adjacentNodes[m], n)
            => LET cost == calculateMovementCost(m, n, UnitOfType(kind))
               IN  /\ (terrainType[n] \in {"lowBuilding", "highBuilding"}
                         /\ kind \in {"monster", "armor", "artillery"}) => cost = -1
                   /\ (terrainType[n] = "river"
                         /\ kind \notin {"monster", "helicopter", "fireboat", "infantry"})
                          => cost = -1

\* The part of C31 on the buildings alone.
C31_BuildingsImpassable ==
    \A m \in Nodes, n \in Nodes, kind \in {"monster", "armor", "artillery"} :
        (Includes(adjacentNodes[m], n) /\ terrainType[n] \in {"lowBuilding", "highBuilding"})
            => calculateMovementCost(m, n, UnitOfType(kind)) = -1

(***************************************************************************)
(* Claim C32                                                               *)
(***************************************************************************)
\* the cost of the step from m to n when the unit can pay for it point by
\* point, Infinity when it cannot: no such step, impassable, or a fording
StepCost(m, n, unit) ==
    LET cost == calculateMovementCost(m, n, unit)
    IN  IF cost < 0 THEN Infinity ELSE cost

\* one round of relaxation of the distances d
Relaxed(d, unit) ==
    [n \in Nodes |->
        LET via == {d[m] + StepCost(m, n, unit) : m \in Nodes} \cup {d[n]}
        IN  CHOOSE c \in via : \A other \in via : c <= other]

RECURSIVE Distances(_, _, _)
Distances(d, unit, rounds) ==
    IF rounds = 0 THEN d ELSE Distances(Relaxed(d, unit), unit, rounds - 1)

\* the minimum cumulative movement cost from the node start to every node
MinCost(start, unit) ==
    Distances([n \in Nodes |-> IF n = start THEN 0 ELSE Infinity], unit, Cardinality(Nodes))

\* the entries of the result that no forced entry and no fording made
Paid(entries) == {i \in 1..Len(entries) : entries[i].specialMovement = "none"}

\* C32: the result of findReachableNodes holds each node at most once; an
\* entry that is neither a forced entry nor a fording carries the minimum
\* cumulative cost from the start, which is within the budget; and every
\* node whose minimum cost is within the budget has an entry.
C32_ReachableIsMinCostMap ==
    query.op = "findReachableNodes"
        => \E least \in {MinCost(query.start, query.unit)} :
               /\ \A i \in 1..Len(reachable), j \in 1..Len(reachable) :
                      reachable[i].id = reachable[j].id => i = j
               /\ \A i \in Paid(reachable) :
                      /\ reachable[i].cost = least[reachable[i].id]
                      /\ reachable[i].cost <= query.budget
               /\ \A n \in Nodes :
                      least[n] <= query.budget
                          => \E i \in 1..Len(reachable) : reachable[i].id = n

(***************************************************************************)
(* Claim C33                                                               *)
(***************************************************************************)
\* the nodes one passable step away from a node of the set from
Entered(from, unit) ==
    {n \in Nodes : \E m \in from : /\ Includes(getAdjacentNodes(m), n)
                                   /\ calculateMovementCost(m, n, unit) >= 0}

RECURSIVE Passable(_, _)
Passable(from, unit) ==
    LET next == from \cup Entered(from, unit)
    IN  IF next = from THEN from ELSE Passable(next, unit)

\* a passable path leads the unit from the node start to the node end
Connected(start, end, unit) ==
    /\ start \in Nodes
    /\ end \in Nodes
    /\ end \in Passable({start}, unit)

\* the number of nodes the loop of findPath has taken from the open set when
\* it ends
RECURSIVE PathIterations(_, _, _)
PathIterations(st, endNodeId, unit) ==
    IF st.openSet = <<>> \/ st.iterations >= PathMaxIterations THEN st.iterations
    ELSE LET current == LowestFScore(st.openSet, st.fScore, 1, st.openSet[1])
         IN  IF current = endNodeId THEN st.iterations
             ELSE LET st1 == [st EXCEPT !.iterations = @ + 1,
                                        !.openSet = Splice(@, FindIndex(@, current)),
                                        !.closedSet = @ \cup {current}]
                  IN  PathIterations(PathNeighbours(st1, current, getAdjacentNodes(current),
                                                    1, endNodeId, unit),
                                     endNodeId, unit)

Searched(start, end, unit) ==
    PathIterations([openSet |-> <<start>>,
                    closedSet |-> {},
                    cameFrom |-> [n \in Nodes |-> Undefined],
                    gScore |-> [n \in Nodes |-> IF n = start THEN 0 ELSE Undefined],
                    fScore |-> [n \in Nodes |-> IF n = start THEN heuristic(start, end)
                                                ELSE Undefined],
                    iterations |-> 0],
                   end, unit)

C33_RoundTheRing ==
    /\ query.op = "findPath"
    /\ nodes = RingNodes
    /\ Len(foundPath) = 3

(***************************************************************************)
(* Claim C34                                                               *)
(***************************************************************************)
\* the entities of the side whose phase it is
ActingSide == IF turnManager.currentPhase = "monster" THEN gameState.monsters
              ELSE {u \in gameState.units : unitFaction[u] = "human"}

PointsLeft(e) == IF e = MonsterId THEN monster.currentMovementPoints
                 ELSE units[e].currentMovementPoints

\* every entity of the acting side has spent its movement points
Exhausted == ActingSide # {} /\ \A e \in ActingSide : PointsLeft(e) <= 0

\* C34: the end-phase signal ends the sub-phase; and a movement sub-phase in
\* which a completed move leaves every entity of the acting side without
\* movement points ends with that move, no signal given.
C34_SubPhaseEnds ==
    [][/\ lastOp'.op = "endCurrentSubPhase"
            => <<turnManager.currentPhase, turnManager.currentSubPhase>>'
                   # <<turnManager.currentPhase, turnManager.currentSubPhase>>
       /\ (/\ turnManager.currentSubPhase = "movement"
           /\ lastOp'.op \in {"timeline.complete", "onMovementCompleted"}
           /\ Exhausted')
            => <<turnManager.currentPhase, turnManager.currentSubPhase>>'
                   # <<turnManager.currentPhase, turnManager.currentSubPhase>>]_vars

\* The part of C34 on the signal alone.
C34_SignalEndsSubPhase ==
    [][lastOp'.op = "endCurrentSubPhase"
            => <<turnManager.currentPhase, turnManager.currentSubPhase>>'
                   # <<turnManager.currentPhase, turnManager.currentSubPhase>>]_vars

(***************************************************************************)
(* Claim C35.  Specification of the fire breathing: the monster of the     *)
(* scenario 'City Eater' (scenarios.json: specialAbilities                 *)
(* ["fireBreathing"]) is selected and its player clicks on the map.        *)
(***************************************************************************)
\* GameScene.moveSelectedMonster: a placeholder that reports a completed move
moveSelectedMonster(w) ==
    IF w.tm.currentSubPhase # "movement" THEN w
    ELSE IF w.monster.currentMovementPoints <= 0 THEN w
    ELSE onMovementCompleted(w)

\* The 'pointerdown' handler of GameScene.setupInputHandlers in the monster
\* phase, the monster selected and no unit selected.  Returns [emitted, w]:
\* emitted tells whether 'fire-started' was emitted.
pointerdown(w, nearestNode) ==
    IF Len(getMonstersAtNode(w.gs, nearestNode)) > 0
    THEN [emitted |-> FALSE, w |-> w]
    ELSE IF w.tm.currentSubPhase = "destruction" /\ "fireBreathing" \in w.monster.specialAbilities
         THEN IF getNode(w.monster.currentNodeId)
                    /\ Includes(adjacentNodes[w.monster.currentNodeId], nearestNode)
              THEN [emitted |-> TRUE,
                    w |-> onFireStarted(w, [nodeId |-> nearestNode, stage |-> 1])]
              ELSE [emitted |-> FALSE, w |-> w]
    ELSE IF w.tm.currentSubPhase = "movement"
         THEN [emitted |-> FALSE, w |-> moveSelectedMonster(w)]
    ELSE [emitted |-> FALSE, w |-> w]

\* history of a click: the node, whether 'fire-started' was emitted, and the
\* die that was rolled for it, 0 when none was
Clicked(nearestNode, emitted, dieRoll) ==
    [op |-> "pointerdown", who |-> MonsterId, arg |-> nearestNode, ok |-> emitted,
     spread |-> 0, dieRoll |-> dieRoll]

PointerDown ==
    /\ MayIssue("breath")
    /\ turnManager.currentPhase = "monster"
    /\ \E nearestNode \in Nodes :
           \E r \in {pointerdown(World, nearestNode)} :
               /\ Commit(r.w)
               /\ ledger' = IF r.emitted THEN [Issued EXCEPT !.ignitions = @ + 1] ELSE Issued
               /\ lastOp' = Clicked(nearestNode, r.emitted, 0)

InitBreath ==
    /\ nodes = ScenarioNodes
    /\ terrainType = FireTerrain
    /\ \E w \in {[InitWorld EXCEPT !.terrain = FireTerrain,
                                   !.monster.specialAbilities = {"fireBreathing"}]} :
           /\ turnManager = w.tm
           /\ gameState = w.gs
           /\ monster = w.monster
           /\ units = w.units
    /\ timelines = <<>>
    /\ gameOver = <<>>
    /\ ledger = NoLedger
    /\ lastOp = Called("create", Undefined, Undefined, TRUE, 0)
    /\ session = "breath"
    /\ dataManager = NoData
    /\ dataLoad = NoLoad
    /\ query = NoQuery
    /\ reachable = <<>>
    /\ foundPath = <<>>
    /\ moveResult = NoMove

NextBreath == EndTurn \/ EndPhase \/ PointerDown

SpecBreath == InitBreath /\ [][NextBreath]_vars

\* the fire ignition attempts: the clicks that emitted 'fire-started'
Ignition == lastOp.op = "pointerdown" /\ lastOp.ok

\* C35: at most three fire ignition attempts are accepted in one monster
\* turn; an accepted attempt leaves the destruction attempts of the monster
\* and the destruction actions of the turn as they are; and an attempt that
\* places a fire rolled a die of 3 or less.
C35_IgnitionAllowance ==
    [][/\ ledger'.ignitions <= 3
       /\ Ignition'
            => /\ monster'.remainingDestructionAttempts = monster.remainingDestructionAttempts
               /\ turnManager'.actionsRemaining = turnManager.actionsRemaining
               /\ FireIds(gameState') # FireIds(gameState) => lastOp'.dieRoll \in 1..3]_vars

\* The part of C35 on the two counts alone.
C35_CountsApart ==
    [][Ignition'
            => /\ monster'.remainingDestructionAttempts = monster.remainingDestructionAttempts
               /\ turnManager'.actionsRemaining = turnManager.actionsRemaining]_vars

\* The part of C35 on the number of attempts alone.
C35_ThreeIgnitions == ledger.ignitions <= 3

\* The part of C35 on the die alone.
C35_DieDecides ==
    [][(Ignition' /\ FireIds(gameState') # FireIds(gameState)) => lastOp'.dieRoll \in 1..3]_vars

(***************************************************************************)
(* Claim C36                                                               *)
(***************************************************************************)
\* the fires of gs that are below the top stage
Rising(gs) == {id \in FireIds(gs) : MarkerById(gs, id).intensity < 3}

\* C36: a step that runs spreadFires once raises every fire that existed
\* before it, is below the top stage and is still there after it, by exactly
\* one stage.
C36_EveryFireRisesOneStage ==
    [][lastOp'.spread = 1
            => \A id \in Rising(gameState) \cap FireIds(gameState') :
                   MarkerById(gameState', id).intensity
                       = MarkerById(gameState, id).intensity + 1]_vars

\* The part of C36 that excludes a rise of more than one stage.
C36_AtMostOneStage ==
    [][lastOp'.spread = 1
            => \A id \in Rising(gameState) \cap FireIds(gameState') :
                   MarkerById(gameState', id).intensity
                       <= MarkerById(gameState, id).intensity + 1]_vars

(***************************************************************************)
(* Claim C37                                                               *)
(***************************************************************************)
\* C37: a resolved attack was resolved with the combat tables loaded, and its
\* result is the cell of the tables for the strengths of the two sides and
\* the die.
C37_TableDecides ==
    (lastOp.op = "initiateCombat" /\ lastOp.ok)
        => /\ dataManager.isLoaded
           /\ lastOp.result = getCombatResult(dataManager, lastOp.attack, lastOp.defense,
                                              lastOp.dieRoll)

\* An attack was resolved with the combat tables loaded.
C37_ResolvedByTable ==
    /\ lastOp.op = "initiateCombat"
    /\ lastOp.ok
    /\ dataManager.isLoaded

(***************************************************************************)
(* Claim C38                                                               *)
(***************************************************************************)
\* the point value of a human unit (the table of GameState.getUnitPointValue)
PointValue(u) ==
    CASE unitType[u] = "infantry" -> 10
      [] unitType[u] = "police" -> 8
      [] unitType[u] = "artillery" -> 15
      [] unitType[u] = "tank" -> 20
      [] unitType[u] = "helicopter" -> 25
      [] unitType[u] = "populace" -> 5
      [] unitType[u] = "firemen" -> 8
      [] unitType[u] = "fireboat" -> 12
      [] OTHER -> 5

\* the human units the step takes off the map
Eliminated == {u \in gameState.units : u \notin gameState'.units}

\* C38: a resolved combat between the monster and a human unit that takes the
\* unit off the map adds the point value of the unit to the victory points of
\* the monster.
C38_EliminationScores ==
    [][(/\ lastOp'.op = "initiateCombat"
        /\ lastOp'.ok
        /\ MonsterId \in {lastOp'.who, lastOp'.arg})
            => \A u \in Eliminated :
                   gameState'.victoryPoints.monster
                       = gameState.victoryPoints.monster + PointValue(u)]_vars

(***************************************************************************)
(* Claim C39                                                               *)
(***************************************************************************)
\* C39: 'game-over' is emitted at most once in a game, and no step changes
\* the events that were emitted.
C39_GameOverOnce ==
    [][/\ Len(gameOver') <= 1
       /\ gameOver # <<>> => gameOver' = gameOver]_vars

\* The part of C39 on the steps after the game is over.
C39_OverStaysOver == [][gameOver # <<>> => gameOver' = gameOver]_vars

(***************************************************************************)
(* Claim C40.  Specification of the data loads.  scene.load is a Phaser    *)
(* LoaderPlugin and scene.cache.json the JSON cache of the game; the       *)
(* library is no part of the sources and is modelled by its contract: a    *)
(* file is added to the list unless its key is in the cache or in the      *)
(* loader already; start() does nothing while the loader is loading, and   *)
(* completes at once when the list is empty; 'complete' is emitted once,   *)
(* when no file waits and no file is being loaded, after every file that   *)
(* was loaded has been added to the cache, also when a file failed.        *)
(***************************************************************************)
\* what a file holds: an object, or the JSON text null
Contents == {"object", "null"}

\* The fault claim C40 excludes: the load resolves before it is validated.
onCompleteUnvalidated(l, k) ==
    [l EXCEPT !.data[k] = l.cache[k], !.isLoaded[k] = TRUE, !.promises[k] = "resolved"]

\* The 'complete' handler of the load of the key k (the four handlers have
\* the same body): validate* throws on a value that is missing, the handler
\* catches and rejects.  The listeners of notifyListeners hold no state of
\* the model.
onComplete(l, k) ==
    LET l1 == [l EXCEPT !.data[k] = l.cache[k], !.isLoaded[k] = TRUE]
    IN  IF l1.data[k] \in {Absent, "null"}
        THEN [l1 EXCEPT !.promises[k] = "rejected"]
        ELSE [l1 EXCEPT !.promises[k] = "resolved"]

\* emit('complete'): the handlers registered with once run in their order
RECURSIVE Emit(_, _, _)
Emit(l, handlers, i) ==
    IF i > Len(handlers) THEN l ELSE Emit(onComplete(l, handlers[i]), handlers, i + 1)

\* LoaderPlugin.loadComplete
loadComplete(l) == Emit([l EXCEPT !.state = "complete", !.listeners = <<>>], l.listeners, 1)

\* LoaderPlugin.checkLoadQueue: the downloads in parallel outnumber the files
checkLoadQueue(l) == [l EXCEPT !.inflight = @ \cup l.list, !.list = {}]

\* this.scene.load.json(key, url)
json(l, k) ==
    IF l.cache[k] # Absent \/ k \in l.list \cup l.inflight THEN l
    ELSE [l EXCEPT !.list = @ \cup {k}]

\* this.scene.load.once('complete', ...)
once(l, k) == [l EXCEPT !.listeners = Append(@, k)]

\* this.scene.load.start()
start(l) ==
    IF l.state = "loading" THEN l
    ELSE IF l.list = {} THEN loadComplete(l)
    ELSE checkLoadQueue([l EXCEPT !.state = "loading"])

\* loadCombatTables, loadUnitStats, loadMapNodes, loadScenarios
load(l, k) == start(once(json([l EXCEPT !.promises[k] = "pending"], k), k))

RECURSIVE loadFrom(_, _)
loadFrom(l, i) == IF i > Len(DataKeys) THEN l ELSE loadFrom(load(l, DataKeys[i]), i + 1)

\* DataManager.loadAll: the four loads are started in one call
loadAll(l) == [loadFrom(l, 1) EXCEPT !.all = "pending"]

\* the loader after the load of the file k ended: nextFile, fileProcessComplete
Ended(l, k) ==
    LET l1 == [l EXCEPT !.inflight = @ \ {k}, !.order = Append(@, k)]
        l2 == IF l1.list # {} THEN checkLoadQueue(l1) ELSE l1
    IN  IF l2.list = {} /\ l2.inflight = {} THEN loadComplete(l2) ELSE l2

\* DataManager.isLoaded.combatTables and combatTables, as the loads left them
ManagerOf(l) ==
    [isLoaded |-> l.isLoaded["combatTables"],
     combatTables |-> IF l.data["combatTables"] = "object" THEN DamageTables
                      ELSE NoData.combatTables]

LoadsLeave(l) ==
    /\ dataLoad' = l
    /\ dataManager' = ManagerOf(l)
    /\ UNCHANGED <<nodes, terrainType, turnManager, gameState, monster, units, timelines,
                   gameOver, ledger, lastOp, session, query, reachable, foundPath, moveResult>>

\* GameScene.create: this.dataManager.loadAll()
LoadAll ==
    /\ dataLoad.all = "none"
    /\ LoadsLeave(loadAll(dataLoad))

\* The file of the key k has been loaded and processed: it is in the cache.
FileLoaded ==
    \E k \in dataLoad.inflight, content \in Contents :
        LoadsLeave(Ended([dataLoad EXCEPT !.cache[k] = content], k))

\* The load of the file of the key k has failed.
FileFailed ==
    \E k \in dataLoad.inflight :
        LoadsLeave(Ended([dataLoad EXCEPT !.failed = @ \cup {k}], k))

\* LoaderPlugin.update, on the scene's update event: the files that were
\* added while the loader was loading are started
Update ==
    /\ dataLoad.state = "loading"
    /\ dataLoad.list # {}
    /\ LoadsLeave(checkLoadQueue(dataLoad))

\* Promise.all: .then runs when the four promises are resolved
AllResolved ==
    /\ dataLoad.all = "pending"
    /\ \A k \in Keys : dataLoad.promises[k] = "resolved"
    /\ LoadsLeave([dataLoad EXCEPT !.all = "resolved"])

\* Promise.all: .catch runs when one of the promises is rejected
AllRejected ==
    /\ dataLoad.all = "pending"
    /\ \E k \in Keys : dataLoad.promises[k] = "rejected"
    /\ LoadsLeave([dataLoad EXCEPT !.all = "rejected"])

\* The cache of the game holds the files an earlier scene has loaded.
InitData ==
    /\ nodes = ScenarioNodes
    /\ terrainType = ScenarioTerrain
    /\ InitEngine
    /\ session = "loading"
    /\ dataManager = NoData
    /\ \E cached \in SUBSET Keys :
           dataLoad = [NoLoad EXCEPT !.cache = [k \in Keys |-> IF k \in cached THEN "object"
                                                                ELSE Absent]]
    /\ query = NoQuery
    /\ reachable = <<>>
    /\ foundPath = <<>>
    /\ moveResult = NoMove

NextData == LoadAll \/ FileLoaded \/ FileFailed \/ Update \/ AllResolved \/ AllRejected

SpecData == InitData /\ [][NextData]_vars

C40_ReadAfterFailure ==
    \E k \in dataLoad.failed : dataLoad.isLoaded[k] /\ dataLoad.data[k] = Absent

=============================================================================
